---------------------------- MODULE Spec2Model ----------------------------
(***************************************************************************)
(* Model of trpg-discord-bot-py: the dice expression parser and evaluator  *)
(* (utils/dice.py), the Call of Cthulhu resolver (utils/coc.py), the rule  *)
(* configuration and its manager (utils/config.py, cogs/logs_cog.py), the  *)
(* skill database with its commands (models/database.py,                   *)
(* cogs/skills_cog.py), the /roll and /coc commands (cogs/dice_cog.py) and *)
(* the /admin command with its dialogs (cogs/admin_cog.py).                *)
(*                                                                         *)
(* A behaviour of the dice core is one call of one function: the state     *)
(* before the call is Idle, the action of a function draws its arguments   *)
(* and the values of the random source and stores the call's return value. *)
(* The configuration manager and the skill database keep state between     *)
(* commands; their behaviours are sequences of commands.                   *)
(*                                                                         *)
(* Text is a sequence of one-character strings.  Python's None is the      *)
(* empty tuple, an Optional[bool] is None or a one-element tuple.          *)
(***************************************************************************)
EXTENDS Integers, Sequences, FiniteSets, TLC

VARIABLES
    fn,           \* the function called ("idle" before the call)
    rules,        \* the GuildConfig passed to the call
    skill_value,  \* roll_coc: skill_value
    roll,         \* roll_coc: roll, the value drawn from randint(1, 100)
    level,        \* roll_coc: success_level
    expr,         \* parse_dice_expr / roll_multiple_dice: expr
    written,      \* the numbers expr was written from (None: free text)
    max_rolls,    \* roll_multiple_dice: max_rolls
    dice,         \* roll_dice: dice
    parsed,       \* parse_dice_expr: the DiceRoll returned
    results,      \* the list of RollResult returned
    raised,       \* "None", or the kind of the ValueError raised
    draws,        \* the values the random source returned, in the order drawn
    times,        \* roll_coc_multi: times
    success_text, \* format_success_level: the label returned
    coc_message,  \* coc_command: the lines of the message sent
    pc,           \* roll_multiple_dice run step by step: where the call is
    repeat,       \* roll_multiple_dice: count, the number of calls of roll_dice
    current_rolls,\* roll_dice: the rolls drawn so far by the call in progress
    constructed,  \* whether the ConfigManager has been constructed
    config_file,  \* the content of config.json (None: no such file)
    objects,      \* the GuildConfig objects alive, by identity
    guild_configs,\* ConfigManager.guild_configs: guild -> identity (0: no entry)
    skills,       \* the rows of the table skills
    view,         \* the SkillDeleteView on display (None: none)
    shown,        \* the Skill the dialog on display was built from
    request,      \* the arguments of the /skill add just run, and the name
                  \* stored under its key before it (None: no add just run)
    found,        \* /skill show: what find_skill_for_user returned
    developers,   \* ConfigManager.global_config.developers
    global_file,  \* the "global" section of config.json (None: no file)
    boot,         \* how the developer list was set up when the bot started
    running,      \* whether the bot process is running
    admin_request,\* the user and the arguments of the last /admin command or
                  \* button press
    admin_view,   \* the ConfirmView created last (None: none yet)
    tasks,        \* the button callbacks of admin_view awaiting edit_message
    outcome       \* what the last admin handler step did

coreVars == <<fn, rules, skill_value, roll, level, expr, written, max_rolls,
              dice, parsed, results, raised, draws, times, success_text,
              coc_message>>

stepVars == <<pc, repeat, current_rolls>>
configVars == <<constructed, config_file, objects, guild_configs>>
skillVars == <<skills, view, shown, request>>
adminVars == <<developers, global_file, boot, running, admin_request,
               admin_view, tasks, outcome>>
lateVars == <<found, adminVars>>

vars == <<coreVars, stepVars, configVars, skillVars, lateVars>>

cocVars  == <<skill_value, roll, level>>
multiVars == <<times, success_text, coc_message>>
diceVars == <<expr, written, max_rolls, dice, parsed>>
farVars == <<stepVars, configVars, skillVars, lateVars>>

None == <<>>

Some(x) == <<x>>

-----------------------------------------------------------------------------
(* utils/config.py: GuildConfig, the rule fields and their defaults.       *)

DndCriticalSuccessDefault == 20
DndCriticalFailDefault == 1
DndMaxDiceCountDefault == 50
DndMaxDiceSidesDefault == 1000
CocCriticalSuccessDefault == 1
CocCriticalFailDefault == 100
CocSkillDivisorHardDefault == 2
CocSkillDivisorExtremeDefault == 5

GuildConfig ==
    [dnd_critical_success |-> DndCriticalSuccessDefault,
     dnd_critical_fail |-> DndCriticalFailDefault,
     dnd_max_dice_count |-> DndMaxDiceCountDefault,
     dnd_max_dice_sides |-> DndMaxDiceSidesDefault,
     coc_critical_success |-> CocCriticalSuccessDefault,
     coc_critical_fail |-> CocCriticalFailDefault,
     coc_skill_divisor_hard |-> CocSkillDivisorHardDefault,
     coc_skill_divisor_extreme |-> CocSkillDivisorExtremeDefault]

-----------------------------------------------------------------------------
(* models/types.py                                                         *)

DiceRoll(count, sides, modifier, comparison) ==
    [count |-> count, sides |-> sides, modifier |-> modifier,
     comparison |-> comparison]

RollResult(dice_expr, rolls, modifier, total, is_critical_success, is_critical_fail, comparison_result) ==
    [dice_expr |-> dice_expr, rolls |-> rolls, modifier |-> modifier,
     total |-> total, is_critical_success |-> is_critical_success,
     is_critical_fail |-> is_critical_fail,
     comparison_result |-> comparison_result]

NoDice == DiceRoll(0, 0, 0, None)

-----------------------------------------------------------------------------
(* The servers (guilds) the bot is in, and the identities of the           *)
(* GuildConfig objects that can be alive at once: one stored per guild and *)
(* one more, made by a command at work.                                    *)

Guilds == {1, 2}

ObjectIds == 1..(Cardinality(Guilds) + 1)

-----------------------------------------------------------------------------
(* The state before the first call: the core idle, the ConfigManager not   *)
(* yet constructed, the skill table created and empty.                     *)

Init ==
    /\ fn = "idle"
    /\ rules = GuildConfig
    /\ skill_value = 0
    /\ roll = 0
    /\ level = 0
    /\ expr = <<>>
    /\ written = None
    /\ max_rolls = 0
    /\ dice = NoDice
    /\ parsed = NoDice
    /\ results = <<>>
    /\ raised = "None"
    /\ draws = <<>>
    /\ times = 0
    /\ success_text = ""
    /\ coc_message = <<>>
    /\ pc = "idle"
    /\ repeat = 0
    /\ current_rolls = <<>>
    /\ constructed = FALSE
    /\ config_file = None
    /\ objects = [o \in ObjectIds |-> None]
    /\ guild_configs = [g \in Guilds |-> 0]
    /\ skills = {}
    /\ view = None
    /\ shown = None
    /\ request = None
    /\ found = None
    /\ developers = <<>>
    /\ global_file = None
    /\ boot = "off"
    /\ running = TRUE
    /\ admin_request = None
    /\ admin_view = None
    /\ tasks = {}
    /\ outcome = ""

-----------------------------------------------------------------------------
(* utils/coc.py                                                            *)

CocRollMax == 100
SkillMin == 1
SkillMax == 100
CocCritLow == 96
CocLowSkill == 50

\* Largest divisor of the enumerated configurations (besides the defaults).
MaxDivisor == 3

Divisors ==
    (1..MaxDivisor) \cup {CocSkillDivisorHardDefault, CocSkillDivisorExtremeDefault}

\* Critical values of the enumerated configurations.
CocCritValues == {1, 50, CocCritLow, CocRollMax}

\* The configurations a CoC roll is made under: the default, every pair of
\* divisors, and every pair of critical values.
CocRules ==
    {[GuildConfig EXCEPT !.coc_skill_divisor_hard = h,
                         !.coc_skill_divisor_extreme = e] :
        h \in Divisors, e \in Divisors}
    \cup
    {[GuildConfig EXCEPT !.coc_critical_success = s,
                         !.coc_critical_fail = f] :
        s \in CocCritValues, f \in CocCritValues}

\* is_critical_failure with the low-skill test made inclusive of 50.
is_critical_failure_inclusive(r, skill, cfg) ==
    IF skill <= CocLowSkill
        THEN r >= CocCritLow
        ELSE r = cfg.coc_critical_fail

\* is_critical_failure that knows only the low-skill test.
is_critical_failure_low_only(r, skill, cfg) ==
    IF skill < CocLowSkill
        THEN r >= CocCritLow
        ELSE FALSE

is_critical_failure(r, skill, cfg) ==
    IF skill < CocLowSkill
        THEN r >= CocCritLow
        ELSE r = cfg.coc_critical_fail

\* The thresholds are the true quotients skill_value / divisor (Python's /).
\* For an integer r and a positive integer divisor d, r <= skill / d holds
\* exactly when r * d <= skill, which is how the comparison is computed here.
LeQuotient(r, skill, d) == r * d <= skill

\* determine_success_level with the ranks of the extreme and the hard tier
\* exchanged.
determine_success_level_ranks_swapped(r, skill, cfg) ==
    IF r = cfg.coc_critical_success THEN 1
    ELSE IF is_critical_failure(r, skill, cfg) THEN 6
    ELSE IF r = CocRollMax
            \/ LeQuotient(r, skill, cfg.coc_skill_divisor_extreme) THEN 3
    ELSE IF LeQuotient(r, skill, cfg.coc_skill_divisor_hard) THEN 2
    ELSE IF r <= skill THEN 4
    ELSE 5

\* determine_success_level with the hard test before the extreme test.
determine_success_level_hard_first(r, skill, cfg) ==
    IF r = cfg.coc_critical_success THEN 1
    ELSE IF is_critical_failure(r, skill, cfg) THEN 6
    ELSE IF LeQuotient(r, skill, cfg.coc_skill_divisor_hard) THEN 3
    ELSE IF r = CocRollMax
            \/ LeQuotient(r, skill, cfg.coc_skill_divisor_extreme) THEN 2
    ELSE IF r <= skill THEN 4
    ELSE 5

determine_success_level(r, skill, cfg) ==
    IF r = cfg.coc_critical_success THEN 1
    ELSE IF is_critical_failure(r, skill, cfg) THEN 6
    ELSE IF r = CocRollMax
            \/ LeQuotient(r, skill, cfg.coc_skill_divisor_extreme) THEN 2
    ELSE IF LeQuotient(r, skill, cfg.coc_skill_divisor_hard) THEN 3
    ELSE IF r <= skill THEN 4
    ELSE 5

CocExpr(skill) == <<"d100<=", skill>>

\* roll_coc that counts a plain failure (tier 5) as a success.
roll_coc_failure_counts(r, skill, cfg) ==
    LET success_level == determine_success_level(r, skill, cfg)
    IN  RollResult(CocExpr(skill), <<r>>, 0, r,
                   r = cfg.coc_critical_success,
                   is_critical_failure(r, skill, cfg),
                   Some(success_level <= 5))

\* roll_coc(skill_value, rules), r being the value randint(1, 100) returned.
roll_coc(r, skill, cfg) ==
    LET success_level == determine_success_level(r, skill, cfg)
    IN  RollResult(CocExpr(skill), <<r>>, 0, r,
                   r = cfg.coc_critical_success,
                   is_critical_failure(r, skill, cfg),
                   Some(success_level <= 4))

\* One call roll_coc(skill_value, rules); r is the value randint(1, 100) draws.
RollCoc ==
    /\ fn = "idle"
    /\ \E r \in 1..CocRollMax, skill \in SkillMin..SkillMax, cfg \in CocRules :
        /\ fn' = "roll_coc"
        /\ rules' = cfg
        /\ skill_value' = skill
        /\ roll' = r
        /\ level' = determine_success_level(r, skill, cfg)
        /\ results' = <<roll_coc(r, skill, cfg)>>
        /\ draws' = <<r>>
    /\ UNCHANGED <<diceVars, raised, multiVars, farVars>>

TimesMin == 1
TimesMax == 10

Max(a, b) == IF a >= b THEN a ELSE b

\* roll_coc_multi that makes one roll fewer than asked for.
roll_coc_multi_one_short(skill, t, cfg, tape) ==
    LET count == Max(1, t - 1)
    IN  [k \in 1..count |-> roll_coc(tape[k], skill, cfg)]

\* roll_coc_multi(skill_value, times, rules), tape[k] being the value the
\* k-th call of roll_coc draws.
roll_coc_multi(skill, t, cfg, tape) ==
    LET count == Max(1, t)
    IN  [k \in 1..count |-> roll_coc(tape[k], skill, cfg)]

\* The skill values of the repeated rolls.
MultiSkills == {SkillMin, CocLowSkill - 1, CocLowSkill, SkillMax}

\* The configurations of the repeated rolls.
MultiCocRules ==
    {GuildConfig,
     [GuildConfig EXCEPT !.coc_critical_success = CocLowSkill,
                         !.coc_critical_fail = CocCritLow]}

\* The distances between successive drawn values of an enumerated tape.
TapeSteps == {0, 1, 37}

\* The sequences of n values of randint(1, 100) enumerated: every value in
\* every position, repeated or followed by different ones.
Tapes(n) ==
    {[k \in 1..n |-> ((start + (k - 1) * step) % CocRollMax) + 1] :
        start \in 0..(CocRollMax - 1), step \in TapeSteps}

\* One call roll_coc_multi(skill, times, rules), as coc_command makes it.
RollCocMulti ==
    /\ fn = "idle"
    /\ \E skill \in MultiSkills, t \in TimesMin..TimesMax,
          cfg \in MultiCocRules :
        \E tape \in Tapes(Max(1, t)) :
            /\ fn' = "roll_coc_multi"
            /\ rules' = cfg
            /\ skill_value' = skill
            /\ times' = t
            /\ draws' = tape
            /\ results' = roll_coc_multi(skill, t, cfg, tape)
    /\ UNCHANGED <<roll, level, success_text, coc_message, diceVars, raised,
                   farVars>>

\* format_success_level whose table lacks the last tier.
format_success_level_five_tiers(l) ==
    CASE l = 1 -> "(Critical Success)"
      [] l = 2 -> "(Extreme Success)"
      [] l = 3 -> "(Hard Success)"
      [] l = 4 -> "(Regular Success)"
      [] l = 5 -> "(Failure)"
      [] OTHER -> "(Unknown)"

\* format_success_level(level): level_map.get(level, unknown).  A label is
\* written by its Latin part, which follows a Chinese part that differs
\* between exactly the same labels.
format_success_level(l) ==
    CASE l = 1 -> "(Critical Success)"
      [] l = 2 -> "(Extreme Success)"
      [] l = 3 -> "(Hard Success)"
      [] l = 4 -> "(Regular Success)"
      [] l = 5 -> "(Failure)"
      [] l = 6 -> "(Critical Failure)"
      [] OTHER -> "(Unknown)"

\* The levels format_success_level is applied to: the tiers and their
\* neighbours.
LevelInputs == (0 - 1)..8

\* One call format_success_level(level).
FormatSuccessLevel ==
    /\ fn = "idle"
    /\ \E l \in LevelInputs :
        /\ fn' = "format_success_level"
        /\ level' = l
        /\ success_text' = format_success_level(l)
    /\ UNCHANGED <<rules, skill_value, roll, times, coc_message, results,
                   draws, diceVars, raised, farVars>>

\* One line of a CoC message: the roll, the tier label, the critical mark
\* and the success mark shown ("" where none is shown).
Line(r, text, crit, status) ==
    [roll |-> r, success_text |-> text, crit |-> crit, status |-> status]

\* The critical mark of a result: the critical success mark, else the
\* critical failure mark, else nothing.
CritMark(result) ==
    IF result.is_critical_success THEN "critical_success"
    ELSE IF result.is_critical_fail THEN "critical_fail"
    ELSE ""

\* format_coc_result(result, skill_value): the tier is classified under
\* GuildConfig(), a configuration constructed with the defaults.
format_coc_result(result, skill) ==
    LET success_level ==
            determine_success_level(result.total, skill, GuildConfig)
    IN  <<Line(result.rolls[1], format_success_level(success_level),
               CritMark(result), "")>>

\* format_coc_multi_results(results, skill_value): one line per result, each
\* tier classified under GuildConfig().
format_coc_multi_results(rs, skill) ==
    [i \in 1..Len(rs) |->
        LET success_level ==
                determine_success_level(rs[i].total, skill, GuildConfig)
        IN  Line(rs[i].rolls[1], format_success_level(success_level),
                 CritMark(rs[i]),
                 IF rs[i].comparison_result = Some(TRUE) THEN "success"
                 ELSE IF rs[i].comparison_result = Some(FALSE) THEN "failure"
                 ELSE "")]

\* The numbers of rolls asked of /coc.
CommandTimes == {TimesMin, 2, 3}

\* /coc <skill> [times] in a guild whose configuration is cfg.
CocCommand ==
    /\ fn = "idle"
    /\ \E skill \in MultiSkills, t \in CommandTimes, cfg \in MultiCocRules :
        \E tape \in Tapes(Max(1, t)) :
            LET rs == roll_coc_multi(skill, t, cfg, tape)
            IN  /\ fn' = "coc_command"
                /\ rules' = cfg
                /\ skill_value' = skill
                /\ times' = t
                /\ draws' = tape
                /\ results' = rs
                /\ coc_message' =
                        IF Len(rs) = 1
                            THEN format_coc_result(rs[1], skill)
                            ELSE format_coc_multi_results(rs, skill)
    /\ UNCHANGED <<roll, level, success_text, diceVars, raised, farVars>>

NextCoc == RollCoc \/ RollCocMulti \/ FormatSuccessLevel \/ CocCommand

SpecCoc == Init /\ [][NextCoc]_vars

-----------------------------------------------------------------------------
(* Text: Python's str, int and str.strip on sequences of characters.       *)

Digit == {"0", "1", "2", "3", "4", "5", "6", "7", "8", "9"}

Whitespace == {" "}

DigitVal(c) ==
    CASE c = "0" -> 0 [] c = "1" -> 1 [] c = "2" -> 2 [] c = "3" -> 3
      [] c = "4" -> 4 [] c = "5" -> 5 [] c = "6" -> 6 [] c = "7" -> 7
      [] c = "8" -> 8 [] c = "9" -> 9

DigitChar(n) ==
    CASE n = 0 -> "0" [] n = 1 -> "1" [] n = 2 -> "2" [] n = 3 -> "3"
      [] n = 4 -> "4" [] n = 5 -> "5" [] n = 6 -> "6" [] n = 7 -> "7"
      [] n = 8 -> "8" [] n = 9 -> "9"

RECURSIVE NatOfDigits(_)
NatOfDigits(s) ==
    IF s = <<>> THEN 0
    ELSE NatOfDigits(SubSeq(s, 1, Len(s) - 1)) * 10 + DigitVal(s[Len(s)])

\* int(text) for an optionally signed run of digits.
int(s) ==
    IF s[1] = "-" THEN 0 - NatOfDigits(Tail(s))
    ELSE IF s[1] = "+" THEN NatOfDigits(Tail(s))
    ELSE NatOfDigits(s)

RECURSIVE DigitsOfNat(_)
DigitsOfNat(n) ==
    IF n < 10 THEN <<DigitChar(n)>>
    ELSE DigitsOfNat(n \div 10) \o <<DigitChar(n % 10)>>

\* str(n), the decimal rendering of an integer.
str(n) == IF n < 0 THEN <<"-">> \o DigitsOfNat(0 - n) ELSE DigitsOfNat(n)

RECURSIVE lstrip(_)
lstrip(s) ==
    IF s # <<>> /\ s[1] \in Whitespace THEN lstrip(Tail(s)) ELSE s

RECURSIVE rstrip(_)
rstrip(s) ==
    IF s # <<>> /\ s[Len(s)] \in Whitespace
        THEN rstrip(SubSeq(s, 1, Len(s) - 1))
        ELSE s

strip(s) == rstrip(lstrip(s))

-----------------------------------------------------------------------------
(* utils/dice.py: the two regular expressions.  A match is computed left   *)
(* to right with greedy repetition; in both patterns every element is      *)
(* followed by one that cannot start with a character the element accepts  *)
(* (or the text is stripped), so giving back characters never produces a   *)
(* match that the greedy reading misses.                                   *)

\* The position after the longest run of digits starting at position p.
RECURSIVE DigitsEnd(_, _)
DigitsEnd(s, p) ==
    IF p <= Len(s) /\ s[p] \in Digit THEN DigitsEnd(s, p + 1) ELSE p

\* The position after the longest run of whitespace starting at position p.
RECURSIVE SpacesEnd(_, _)
SpacesEnd(s, p) ==
    IF p <= Len(s) /\ s[p] \in Whitespace THEN SpacesEnd(s, p + 1) ELSE p

HasAt(s, p, c) == p <= Len(s) /\ s[p] = c

\* (>=|<=|>|<) at position p: the first alternative that matches, or "".
OpAt(s, p) ==
    IF HasAt(s, p, ">") /\ HasAt(s, p + 1, "=") THEN ">="
    ELSE IF HasAt(s, p, "<") /\ HasAt(s, p + 1, "=") THEN "<="
    ELSE IF HasAt(s, p, ">") THEN ">"
    ELSE IF HasAt(s, p, "<") THEN "<"
    ELSE ""

OpLen(op) == IF op = "" THEN 0 ELSE IF op \in {">=", "<="} THEN 2 ELSE 1

NoMatch == [ok |-> FALSE, g1 |-> <<>>, g2 |-> <<>>, g3 |-> <<>>, g4 |-> "",
            g5 |-> <<>>]

\* re.match(r"^(\d*)d(\d+)([+-]\d+)?(?:\s*(>=|<=|>|<)\s*(\d+))?$", s); an
\* optional group that did not take part is the empty text (the operator: "").
DicePatternMatch(s) ==
    LET p1 == DigitsEnd(s, 1)
        p2 == DigitsEnd(s, p1 + 1)
        hasMod == /\ (HasAt(s, p2, "+") \/ HasAt(s, p2, "-"))
                  /\ DigitsEnd(s, p2 + 1) > p2 + 1
        p3 == IF hasMod THEN DigitsEnd(s, p2 + 1) ELSE p2
        p4 == SpacesEnd(s, p3)
        op == OpAt(s, p4)
        p5 == SpacesEnd(s, p4 + OpLen(op))
        p6 == DigitsEnd(s, p5)
        hasCmp == op # "" /\ p6 > p5
        pEnd == IF hasCmp THEN p6 ELSE p3
    IN  IF /\ HasAt(s, p1, "d")
           /\ p2 > p1 + 1
           /\ pEnd = Len(s) + 1
        THEN [ok |-> TRUE,
              g1 |-> SubSeq(s, 1, p1 - 1),
              g2 |-> SubSeq(s, p1 + 1, p2 - 1),
              g3 |-> SubSeq(s, p2, p3 - 1),
              g4 |-> IF hasCmp THEN op ELSE "",
              g5 |-> IF hasCmp THEN SubSeq(s, p5, p6 - 1) ELSE <<>>]
        ELSE NoMatch

\* re.match(r"^(?:\+)?(\d+)\s+(.+)$", s) on a stripped text s.
MultiPatternMatch(s) ==
    LET p0 == IF HasAt(s, 1, "+") THEN 2 ELSE 1
        p1 == DigitsEnd(s, p0)
        p2 == SpacesEnd(s, p1)
    IN  IF p1 > p0 /\ p2 > p1 /\ p2 <= Len(s)
        THEN [ok |-> TRUE, g1 |-> SubSeq(s, p0, p1 - 1),
              g2 |-> SubSeq(s, p2, Len(s))]
        ELSE [ok |-> FALSE, g1 |-> <<>>, g2 |-> <<>>]

-----------------------------------------------------------------------------
(* utils/dice.py: parse_dice_expr.  A raised ValueError is named after its *)
(* message: "format" (line 18), "count_zero" (24), "count_max" (27),       *)
(* "sides_min" (32), "sides_max" (35).                                     *)

Raise(message) == [raised |-> message, value |-> NoDice]

Return(d) == [raised |-> "None", value |-> d]

\* parse_dice_expr that accepts a count one above the cap.
parse_dice_expr_count_off_by_one(e, cfg) ==
    LET m == DicePatternMatch(strip(e))
        count == IF m.g1 # <<>> THEN int(m.g1) ELSE 1
        sides == int(m.g2)
        modifier == IF m.g3 # <<>> THEN int(m.g3) ELSE 0
        comparison == IF m.g4 # "" /\ m.g5 # <<>>
                          THEN <<m.g4, int(m.g5)>> ELSE None
    IN  IF ~m.ok THEN Raise("format")
        ELSE IF count = 0 THEN Raise("count_zero")
        ELSE IF count > cfg.dnd_max_dice_count + 1 THEN Raise("count_max")
        ELSE IF sides < 2 THEN Raise("sides_min")
        ELSE IF sides > cfg.dnd_max_dice_sides THEN Raise("sides_max")
        ELSE Return(DiceRoll(count, sides, modifier, comparison))

\* parse_dice_expr that takes the modifier without its sign.
parse_dice_expr_unsigned(e, cfg) ==
    LET m == DicePatternMatch(strip(e))
        count == IF m.g1 # <<>> THEN int(m.g1) ELSE 1
        sides == int(m.g2)
        modifier == IF m.g3 # <<>> THEN int(Tail(m.g3)) ELSE 0
        comparison == IF m.g4 # "" /\ m.g5 # <<>>
                          THEN <<m.g4, int(m.g5)>> ELSE None
    IN  IF ~m.ok THEN Raise("format")
        ELSE IF count = 0 THEN Raise("count_zero")
        ELSE IF count > cfg.dnd_max_dice_count THEN Raise("count_max")
        ELSE IF sides < 2 THEN Raise("sides_min")
        ELSE IF sides > cfg.dnd_max_dice_sides THEN Raise("sides_max")
        ELSE Return(DiceRoll(count, sides, modifier, comparison))

parse_dice_expr(e, cfg) ==
    LET m == DicePatternMatch(strip(e))
        count == IF m.g1 # <<>> THEN int(m.g1) ELSE 1
        sides == int(m.g2)
        modifier == IF m.g3 # <<>> THEN int(m.g3) ELSE 0
        comparison == IF m.g4 # "" /\ m.g5 # <<>>
                          THEN <<m.g4, int(m.g5)>> ELSE None
    IN  IF ~m.ok THEN Raise("format")
        ELSE IF count = 0 THEN Raise("count_zero")
        ELSE IF count > cfg.dnd_max_dice_count THEN Raise("count_max")
        ELSE IF sides < 2 THEN Raise("sides_min")
        ELSE IF sides > cfg.dnd_max_dice_sides THEN Raise("sides_max")
        ELSE Return(DiceRoll(count, sides, modifier, comparison))


-----------------------------------------------------------------------------
(* The texts handed to the parser.                                         *)

\* Caps of the second enumerated configuration.
SmallMaxCount == 2
SmallMaxSides == 6

SmallRules ==
    [GuildConfig EXCEPT !.dnd_max_dice_count = SmallMaxCount,
                        !.dnd_max_dice_sides = SmallMaxSides]

ParseRules == {GuildConfig, SmallRules}

Ops == {">=", "<=", ">", "<"}

OpText(op) ==
    CASE op = ">=" -> <<">", "=">> [] op = "<=" -> <<"<", "=">>
      [] op = ">" -> <<">">> [] op = "<" -> <<"<">>

\* A written number: its text and its value.
Piece(text, val) == [text |-> text, val |-> val]

CountNums ==
    {0, 1, 2}
    \cup UNION {{c.dnd_max_dice_count, c.dnd_max_dice_count + 1} :
                    c \in ParseRules}

SidesNums ==
    {0, 1, 2, 6, 20}
    \cup UNION {{c.dnd_max_dice_sides, c.dnd_max_dice_sides + 1} :
                    c \in ParseRules}

CountPieces ==
    {Piece(<<>>, 1), Piece(<<"0", "2">>, 2)}
    \cup {Piece(str(n), n) : n \in CountNums}

SidesPieces ==
    {Piece(<<"0", "6">>, 6)} \cup {Piece(str(n), n) : n \in SidesNums}

ModPieces ==
    {Piece(<<>>, 0)}
    \cup {Piece(<<"+">> \o str(n), n) : n \in {0, 1}}
    \cup {Piece(str(0 - n), 0 - n) : n \in {12}}

Thresholds == {0, 15}

\* Whitespace before and after the comparison operator.
OpPads == {<<<<>>, <<>>>>, <<<<" ">>, <<>>>>, <<<<" ">>, <<" ", " ">>>>}

CmpPieces ==
    {Piece(<<>>, None)}
    \cup {Piece(w[1] \o OpText(op) \o w[2] \o str(t), <<op, t>>) :
            w \in OpPads, op \in Ops, t \in Thresholds}

\* Whitespace before and after the term.
TermPads == {<<<<>>, <<>>>>, <<<<" ">>, <<" ", " ">>>>}

\* [count]d sides[+|-modifier][ op threshold], with whitespace around it.
WrittenInputs ==
    {[text |-> w[1] \o c.text \o <<"d">> \o s.text \o m.text \o q.text
                    \o w[2],
      written |-> Some(DiceRoll(c.val, s.val, m.val, q.val))] :
        w \in TermPads, c \in CountPieces, s \in SidesPieces,
        m \in ModPieces, q \in CmpPieces}

\* Length of the texts enumerated over ShortAlphabet.
ShortLen == 3

ShortAlphabet == {"0", "1", "2", "d", "+", " ", ">", "=", "a"}

ShortTexts == UNION {[1..n -> ShortAlphabet] : n \in 0..ShortLen}

OtherTexts ==
    {<<"a", "b", "c">>,
     <<"d", "6", " ", "+", "1">>,
     <<"2", "d", "6", " ", "+", " ", "1">>,
     <<"D", "6">>,
     <<"2", " ", "d", "6">>,
     <<"2", "d", " ", "6">>,
     <<"d", "6", "+", "1", "+", "1">>,
     <<"d", "6", "-">>,
     <<"d", "6", "=", "5">>,
     <<"d", "6", ">", " ", "=", "5">>,
     <<"d", "6", ">", "=", "5", "<", "3">>,
     <<"d", "6", ">", "=", "-", "1">>,
     <<"2", "x", "6">>,
     <<"d", "2", "0", ">", "=">>}

ParseInputs ==
    WrittenInputs
    \cup {[text |-> t, written |-> None] : t \in ShortTexts \cup OtherTexts}

\* One call parse_dice_expr(expr, rules).
ParseDiceExpr ==
    /\ fn = "idle"
    /\ \E cfg \in ParseRules, inp \in ParseInputs :
        LET out == parse_dice_expr(inp.text, cfg)
        IN  /\ fn' = "parse_dice_expr"
            /\ rules' = cfg
            /\ expr' = inp.text
            /\ written' = inp.written
            /\ raised' = out.raised
            /\ parsed' = out.value
    /\ UNCHANGED <<cocVars, max_rolls, dice, results, draws, multiVars, farVars>>

NextParse == ParseDiceExpr

SpecParse == Init /\ [][NextParse]_vars


-----------------------------------------------------------------------------
(* utils/dice.py: roll_dice and format_dice_expr.                          *)

\* roll_single_dice: the values random.randint(1, sides) can return.
roll_single_dice(sides) == 1..sides

RECURSIVE sum(_)
sum(rolls) ==
    IF rolls = <<>> THEN 0 ELSE rolls[1] + sum(Tail(rolls))

Contains(rolls, v) == \E i \in 1..Len(rolls) : rolls[i] = v

\* format_dice_expr that leaves out the sign of a positive modifier.
format_dice_expr_no_plus(d) ==
    IF d.modifier = 0
        THEN str(d.count) \o <<"d">> \o str(d.sides)
        ELSE str(d.count) \o <<"d">> \o str(d.sides) \o str(d.modifier)

format_dice_expr(d) ==
    IF d.modifier = 0
        THEN str(d.count) \o <<"d">> \o str(d.sides)
        ELSE str(d.count) \o <<"d">> \o str(d.sides)
             \o (IF d.modifier >= 0 THEN <<"+">> ELSE <<>>)
             \o str(d.modifier)

\* roll_dice whose total leaves the modifier out.
roll_dice_without_modifier(d, rolls) ==
    LET total == sum(rolls)
        comparison_result ==
            IF d.comparison # None
                THEN LET op == d.comparison[1]
                         value == d.comparison[2]
                     IN  IF op = ">=" THEN Some(total >= value)
                         ELSE IF op = ">" THEN Some(total > value)
                         ELSE IF op = "<=" THEN Some(total <= value)
                         ELSE IF op = "<" THEN Some(total < value)
                         ELSE None
                ELSE None
    IN  RollResult(format_dice_expr(d), rolls, d.modifier, total,
                   d.sides = 20 /\ Contains(rolls, 20),
                   d.sides = 20 /\ Contains(rolls, 1),
                   comparison_result)

\* roll_dice that flags a 20 or a 1 on a die of any size.
roll_dice_any_sides(d, rolls) ==
    LET total == sum(rolls) + d.modifier
        comparison_result ==
            IF d.comparison # None
                THEN LET op == d.comparison[1]
                         value == d.comparison[2]
                     IN  IF op = ">=" THEN Some(total >= value)
                         ELSE IF op = ">" THEN Some(total > value)
                         ELSE IF op = "<=" THEN Some(total <= value)
                         ELSE IF op = "<" THEN Some(total < value)
                         ELSE None
                ELSE None
    IN  RollResult(format_dice_expr(d), rolls, d.modifier, total,
                   Contains(rolls, 20),
                   Contains(rolls, 1),
                   comparison_result)

\* roll_dice that evaluates the comparison only for a non-zero threshold.
roll_dice_truthy_threshold(d, rolls) ==
    LET total == sum(rolls) + d.modifier
        comparison_result ==
            IF d.comparison # None /\ d.comparison[2] # 0
                THEN LET op == d.comparison[1]
                         value == d.comparison[2]
                     IN  IF op = ">=" THEN Some(total >= value)
                         ELSE IF op = ">" THEN Some(total > value)
                         ELSE IF op = "<=" THEN Some(total <= value)
                         ELSE IF op = "<" THEN Some(total < value)
                         ELSE None
                ELSE None
    IN  RollResult(format_dice_expr(d), rolls, d.modifier, total,
                   d.sides = 20 /\ Contains(rolls, 20),
                   d.sides = 20 /\ Contains(rolls, 1),
                   comparison_result)

\* The values of a list, last first.
RECURSIVE Reversed(_)
Reversed(xs) ==
    IF xs = <<>> THEN <<>> ELSE Append(Reversed(Tail(xs)), xs[1])

\* roll_dice that collects its rolls last drawn first.
roll_dice_last_first(d, rolls) ==
    LET total == sum(rolls) + d.modifier
        comparison_result ==
            IF d.comparison # None
                THEN LET op == d.comparison[1]
                         value == d.comparison[2]
                     IN  IF op = ">=" THEN Some(total >= value)
                         ELSE IF op = ">" THEN Some(total > value)
                         ELSE IF op = "<=" THEN Some(total <= value)
                         ELSE IF op = "<" THEN Some(total < value)
                         ELSE None
                ELSE None
    IN  RollResult(format_dice_expr(d), Reversed(rolls), d.modifier, total,
                   d.sides = 20 /\ Contains(rolls, 20),
                   d.sides = 20 /\ Contains(rolls, 1),
                   comparison_result)

\* roll_dice(dice), rolls being the values roll_single_dice returned, in the
\* order drawn.
roll_dice(d, rolls) ==
    LET total == sum(rolls) + d.modifier
        comparison_result ==
            IF d.comparison # None
                THEN LET op == d.comparison[1]
                         value == d.comparison[2]
                     IN  IF op = ">=" THEN Some(total >= value)
                         ELSE IF op = ">" THEN Some(total > value)
                         ELSE IF op = "<=" THEN Some(total <= value)
                         ELSE IF op = "<" THEN Some(total < value)
                         ELSE None
                ELSE None
    IN  RollResult(format_dice_expr(d), rolls, d.modifier, total,
                   d.sides = 20 /\ Contains(rolls, 20),
                   d.sides = 20 /\ Contains(rolls, 1),
                   comparison_result)

\* Number of dice of the specifications handed to roll_dice directly.
MaxCount == 2

RollSides == {2, 20, 21}

RollModifiers == {0 - 3, 0, 2}

RollComparisons == {None} \cup {<<op, t>> : op \in Ops, t \in {0, 21}}

\* Every comparison on the two-sided die, two of them on the larger dice.
RollSpecs ==
    {d \in {DiceRoll(c, s, m, q) :
                c \in 1..MaxCount, s \in RollSides, m \in RollModifiers,
                q \in RollComparisons} :
        d.sides = 2 \/ d.comparison \in {None, <<">=", 21>>}}

\* One call roll_dice(dice).
RollDice ==
    /\ fn = "idle"
    /\ \E d \in RollSpecs :
        \E rolls \in [1..d.count -> roll_single_dice(d.sides)] :
            /\ fn' = "roll_dice"
            /\ dice' = d
            /\ results' = <<roll_dice(d, rolls)>>
            /\ draws' = rolls
    /\ UNCHANGED <<cocVars, rules, expr, written, max_rolls, parsed, raised,
                   multiVars, farVars>>


-----------------------------------------------------------------------------
(* utils/dice.py: roll_multiple_dice.  Its ValueErrors are "rolls_zero"    *)
(* (line 112) and "rolls_max" (line 115), or those of parse_dice_expr.     *)

Plan(message, count, d) == [raised |-> message, count |-> count, dice |-> d]

\* roll_multiple_dice that rejects a repeat count equal to max_rolls.
roll_multiple_dice_below_max(e, max, cfg) ==
    LET m == MultiPatternMatch(strip(e))
        count == int(m.g1)
        nested == parse_dice_expr(strip(m.g2), cfg)
        single == parse_dice_expr(e, cfg)
    IN  IF m.ok
        THEN IF count = 0 THEN Plan("rolls_zero", 0, NoDice)
             ELSE IF count >= max THEN Plan("rolls_max", 0, NoDice)
             ELSE IF nested.raised # "None"
                THEN Plan(nested.raised, 0, NoDice)
             ELSE Plan("None", count, nested.value)
        ELSE IF single.raised # "None" THEN Plan(single.raised, 0, NoDice)
             ELSE Plan("None", 1, single.value)

\* roll_multiple_dice that makes its first call of roll_dice before it tests
\* the repeat count for zero.
roll_multiple_dice_rolls_first(e, max, cfg) ==
    LET m == MultiPatternMatch(strip(e))
        count == int(m.g1)
        nested == parse_dice_expr(strip(m.g2), cfg)
        single == parse_dice_expr(e, cfg)
    IN  IF m.ok
        THEN IF count > max THEN Plan("rolls_max", 0, NoDice)
             ELSE IF nested.raised # "None"
                THEN Plan(nested.raised, 0, NoDice)
             ELSE IF count = 0 THEN Plan("rolls_zero", 1, nested.value)
             ELSE Plan("None", count, nested.value)
        ELSE IF single.raised # "None" THEN Plan(single.raised, 0, NoDice)
             ELSE Plan("None", 1, single.value)

\* roll_multiple_dice up to its calls of roll_dice: the error it raises, or
\* the number of calls of roll_dice it makes and the DiceRoll it passes.
roll_multiple_dice(e, max, cfg) ==
    LET m == MultiPatternMatch(strip(e))
        count == int(m.g1)
        nested == parse_dice_expr(strip(m.g2), cfg)
        single == parse_dice_expr(e, cfg)
    IN  IF m.ok
        THEN IF count = 0 THEN Plan("rolls_zero", 0, NoDice)
             ELSE IF count > max THEN Plan("rolls_max", 0, NoDice)
             ELSE IF nested.raised # "None"
                THEN Plan(nested.raised, 0, NoDice)
             ELSE Plan("None", count, nested.value)
        ELSE IF single.raised # "None" THEN Plan(single.raised, 0, NoDice)
             ELSE Plan("None", 1, single.value)

\* The smaller of the two max_rolls values passed.
SmallMaxRolls == 2

\* The max_rolls passed: the small one and the 10 of the documented examples.
MaxRollsValues == {SmallMaxRolls, 10}

\* A configuration with critical values other than 20 and 1.
CritRules ==
    [GuildConfig EXCEPT !.dnd_critical_success = 19, !.dnd_critical_fail = 2]

MultiRules == {GuildConfig, CritRules, SmallRules}

RepeatNums ==
    {0, 1, 2, 3} \cup {m + 1 : m \in MaxRollsValues}

RepeatPieces ==
    {Piece(<<"0", "2">>, 2)} \cup {Piece(str(n), n) : n \in RepeatNums}

\* The nested expressions of the written wrappers.
NestedTexts ==
    {<<"d", "6">>,
     <<"d", "2", "<", "0">>,
     <<"2", "d", "2", "-", "3", " ", ">", "=", " ", "0">>,
     <<"0", "d", "6">>,
     <<"d", "1">>,
     <<"d", "7">>,
     <<"a", "b", "c">>,
     <<"d", "6", " ", "+", "1">>,
     <<"2", " ", "d", "6">>}

\* [+]N, one or more spaces, a nested expression.
WrapperInputs ==
    {[text |-> w[1] \o plus \o n.text \o gap \o t \o w[2],
      written |-> Some([repeat |-> n.val, nested |-> t])] :
        w \in TermPads, plus \in {<<>>, <<"+">>}, n \in RepeatPieces,
        gap \in {<<" ">>, <<" ", " ">>}, t \in NestedTexts}
    \cup
    {[text |-> <<"2", " ", "d", "2", "0">>,
      written |-> Some([repeat |-> 2, nested |-> <<"d", "2", "0">>])]}

\* Texts that are no wrapper.
SingleTexts ==
    (NestedTexts \ {<<"2", " ", "d", "6">>})
    \cup {<<"d", "2", "0">>,
          <<"2", "d", "2", "0">>,
          <<" ", "d", "2", "0", "+", "1", " ">>,
          <<"2", "d", "2", "0", ">", "=", "1", "5">>,
          <<"3", "d", "6">>,
          <<"+", "d", "6">>,
          <<"+", "2", "d", "6">>,
          <<"3">>,
          <<"+", "3">>,
          <<"+", " ", "3", " ", "d", "6">>,
          <<"3", "x", "d", "6">>,
          <<>>}

MultiInputs ==
    WrapperInputs \cup {[text |-> t, written |-> None] : t \in SingleTexts}

\* The calls roll_multiple_dice(expr, max_rolls, rules) made, each with what
\* the call does before it first calls roll_dice.
MultiCalls ==
    {[text |-> inp.text, written |-> inp.written, max_rolls |-> max,
      rules |-> cfg, plan |-> roll_multiple_dice(inp.text, max, cfg)] :
        inp \in MultiInputs, max \in MaxRollsValues, cfg \in MultiRules}

\* The values of a list of lists, in order.
RECURSIVE Flatten(_)
Flatten(ss) ==
    IF ss = <<>> THEN <<>> ELSE ss[1] \o Flatten(Tail(ss))

\* One call roll_multiple_dice(expr, max_rolls, rules); tape[k] are the values
\* drawn by the k-th call of roll_dice.
RollMultipleDice ==
    /\ fn = "idle"
    /\ \E c \in MultiCalls :
        \E tape \in [1..c.plan.count ->
                        [1..c.plan.dice.count ->
                            roll_single_dice(c.plan.dice.sides)]] :
            /\ fn' = "roll_multiple_dice"
            /\ expr' = c.text
            /\ written' = c.written
            /\ max_rolls' = c.max_rolls
            /\ rules' = c.rules
            /\ raised' = c.plan.raised
            /\ parsed' = c.plan.dice
            /\ dice' = c.plan.dice
            /\ results' = [k \in 1..c.plan.count |->
                              roll_dice(c.plan.dice, tape[k])]
            /\ draws' = Flatten(tape)
    /\ UNCHANGED <<cocVars, multiVars, farVars>>

\* The specifications format_dice_expr is applied to: valid ones, with and
\* without a comparison.
FormatModifiers == {0 - 12, 0 - 1, 0, 1, 10}

FormatSpecs(cfg) ==
    {DiceRoll(c, sd, m, q) :
        c \in {1, 2, 10, cfg.dnd_max_dice_count} \cap (1..cfg.dnd_max_dice_count),
        sd \in {2, 6, 20, 100, cfg.dnd_max_dice_sides}
                \cap (2..cfg.dnd_max_dice_sides),
        m \in FormatModifiers,
        q \in {None, <<">=", 15>>, <<"<", 0>>}}

\* One call format_dice_expr(dice), under the configuration the text is
\* to be read back with.
FormatDiceExpr ==
    /\ fn = "idle"
    /\ \E cfg \in ParseRules :
        \E d \in FormatSpecs(cfg) :
            /\ fn' = "format_dice_expr"
            /\ rules' = cfg
            /\ dice' = d
            /\ expr' = format_dice_expr(d)
    /\ UNCHANGED <<cocVars, written, max_rolls, parsed, results, raised, draws,
                   multiVars, farVars>>

NextDice == RollDice \/ RollMultipleDice \/ FormatDiceExpr

SpecDice == Init /\ [][NextDice]_vars


-----------------------------------------------------------------------------
(* utils/dice.py: roll_multiple_dice run step by step.  StartRoll is the   *)
(* call up to its first call of roll_dice (lines 105-118 or 123),          *)
(* RollSingleDice one turn of the comprehension of roll_dice (line 59),    *)
(* FinishRollDice the rest of roll_dice (lines 61-88) and the end of one   *)
(* turn of the comprehension of roll_multiple_dice (line 120 or 124).      *)

\* N, a space and a nested expression.
Wrapper(n, t) ==
    [text |-> str(n) \o <<" ">> \o t,
     written |-> Some([repeat |-> n, nested |-> t])]

StepNested == {<<"2", "d", "3">>, <<"d", "6">>, <<"0", "d", "6">>}

StepSingles == {<<"d", "2", "0">>, <<"2", "d", "6", "+", "1">>,
                <<"a", "b", "c">>}

StepInputs ==
    {Wrapper(n, t) : n \in RepeatNums, t \in StepNested}
    \cup {[text |-> t, written |-> None] : t \in StepSingles}

StepCalls ==
    {[text |-> inp.text, written |-> inp.written, max_rolls |-> max,
      rules |-> cfg, plan |-> roll_multiple_dice(inp.text, max, cfg)] :
        inp \in StepInputs, max \in MaxRollsValues, cfg \in ParseRules}

StartRoll ==
    /\ pc = "idle"
    /\ \E c \in StepCalls :
        /\ expr' = c.text
        /\ written' = c.written
        /\ max_rolls' = c.max_rolls
        /\ rules' = c.rules
        /\ raised' = c.plan.raised
        /\ parsed' = c.plan.dice
        /\ dice' = c.plan.dice
        /\ repeat' = c.plan.count
        /\ pc' = IF c.plan.raised # "None" THEN "raised" ELSE "rolling"
    /\ UNCHANGED <<fn, cocVars, multiVars, results, draws, current_rolls,
                   configVars, skillVars, lateVars>>

RollSingleDice ==
    /\ pc = "rolling"
    /\ Len(current_rolls) < dice.count
    /\ \E v \in roll_single_dice(dice.sides) :
        /\ current_rolls' = Append(current_rolls, v)
        /\ draws' = Append(draws, v)
    /\ UNCHANGED <<fn, rules, cocVars, multiVars, diceVars, results, raised,
                   pc, repeat, configVars, skillVars, lateVars>>

FinishRollDice ==
    /\ pc = "rolling"
    /\ Len(current_rolls) = dice.count
    /\ results' = Append(results, roll_dice(dice, current_rolls))
    /\ current_rolls' = <<>>
    /\ pc' = IF Len(results) + 1 = repeat THEN "done" ELSE "rolling"
    /\ UNCHANGED <<fn, rules, cocVars, multiVars, diceVars, raised, draws,
                   repeat, configVars, skillVars, lateVars>>

NextSteps == StartRoll \/ RollSingleDice \/ FinishRollDice

\* The call, once made, runs on: nothing in it waits.
SpecSteps == Init /\ [][NextSteps]_vars /\ WF_vars(NextSteps)

-----------------------------------------------------------------------------
(* cogs/dice_cog.py: roll_command, the /roll command.                      *)

\* The configurations of the guilds /roll is run in: the default (also used
\* outside a guild), and guilds with another dnd_max_dice_count.
CommandRules ==
    {GuildConfig, SmallRules,
     [GuildConfig EXCEPT !.dnd_max_dice_count = 10],
     [GuildConfig EXCEPT !.dnd_max_dice_count = 60]}

\* The repeat counts written in the expressions of /roll.
CommandRepeats == {0, 1, 2, 3, 10, 11, 49, 50, 51, 60, 61}

\* The expressions of /roll: "N d6".
CommandInputs == {Wrapper(n, <<"d", "6">>) : n \in CommandRepeats}

\* The values drawn by count calls of roll_dice for one die of the given
\* sides: every value first, then the same value again or the next one.
CommandTapes(count, sides) ==
    {[k \in 1..count |-> <<((start + (k - 1) * step) % sides) + 1>>] :
        start \in 0..(sides - 1), step \in {0, 1}}

\* The calls roll_multiple_dice(expression, rules.dnd_max_dice_count, rules)
\* roll_command makes, each with what the call does before it first calls
\* roll_dice.
CommandCalls ==
    {[text |-> inp.text, written |-> inp.written, rules |-> cfg,
      plan |-> roll_multiple_dice(inp.text, cfg.dnd_max_dice_count, cfg)] :
        inp \in CommandInputs, cfg \in CommandRules}

\* /roll <expression> in a guild whose configuration is c.rules; a
\* ValueError of the call is caught and reported.
RollCommand ==
    /\ fn = "idle"
    /\ \E c \in CommandCalls :
        \E tape \in CommandTapes(c.plan.count, Max(1, c.plan.dice.sides)) :
            /\ fn' = "roll_command"
            /\ expr' = c.text
            /\ written' = c.written
            /\ max_rolls' = c.rules.dnd_max_dice_count
            /\ rules' = c.rules
            /\ raised' = c.plan.raised
            /\ parsed' = c.plan.dice
            /\ dice' = c.plan.dice
            /\ results' = [k \in 1..c.plan.count |->
                              roll_dice(c.plan.dice, tape[k])]
            /\ draws' = Flatten(tape)
    /\ UNCHANGED <<cocVars, multiVars, farVars>>

NextRollCommand == RollCommand

SpecRollCommand == Init /\ [][NextRollCommand]_vars

-----------------------------------------------------------------------------
(* utils/config.py: ConfigManager, and the commands of cogs/logs_cog.py    *)
(* that update a guild's configuration.  A GuildConfig object is a record  *)
(* of its thirteen fields; objects[o] is the object of identity o, None    *)
(* when there is no such object.                                           *)

StreamThrottleDefault == 1000

\* The None of a channel field (Optional[int]); channel ids are positive.
NoChannel == 0

\* GuildConfig(): a new object with every field at its default.
GuildConfigInstance ==
    [log_channel |-> NoChannel, stream_mode |-> "Batch",
     stream_throttle |-> StreamThrottleDefault,
     crit_success_channel |-> NoChannel,
     crit_fail_channel |-> NoChannel]
    @@ GuildConfig

\* dict.get(key, default)
Get(e, key, default) == IF key \in DOMAIN e THEN e[key] ELSE default

\* The GuildConfig load_config builds from one entry of "guilds".
LoadedGuildConfig(e) ==
    [log_channel |-> Get(e, "log_channel", NoChannel),
     stream_mode |-> Get(e, "stream_mode", "Batch"),
     stream_throttle |-> Get(e, "stream_throttle", 1000),
     crit_success_channel |-> Get(e, "crit_success_channel", NoChannel),
     crit_fail_channel |-> Get(e, "crit_fail_channel", NoChannel),
     dnd_critical_success |-> Get(e, "dnd_critical_success", 20),
     dnd_critical_fail |-> Get(e, "dnd_critical_fail", 1),
     dnd_max_dice_count |-> Get(e, "dnd_max_dice_count", 50),
     dnd_max_dice_sides |-> Get(e, "dnd_max_dice_sides", 1000),
     coc_critical_success |-> Get(e, "coc_critical_success", 1),
     coc_critical_fail |-> Get(e, "coc_critical_fail", 100),
     coc_skill_divisor_hard |-> Get(e, "coc_skill_divisor_hard", 2),
     coc_skill_divisor_extreme |-> Get(e, "coc_skill_divisor_extreme", 5)]

\* The text channels of the commands.
ChannelIds == {7}

\* Entries of "guilds" as an operator of the bot writes them by hand: the
\* fields given, the others left out.  The numbers are JSON integers.
FileEntries ==
    {<<>>,
     [coc_skill_divisor_hard |-> 0],
     [coc_skill_divisor_extreme |-> 0 - 5, dnd_max_dice_sides |-> 0],
     [dnd_max_dice_count |-> 10, log_channel |-> 7, stream_mode |-> "Live"]}

\* The contents of config.json when the bot starts: no file, or a file with
\* entries for some of the guilds.
ConfigFiles ==
    {None}
    \cup {[guilds |-> f] :
            f \in UNION {[gs -> FileEntries] : gs \in SUBSET Guilds}}

\* What save_config writes: asdict of every stored object, by guild.
Dump(objs, configs) ==
    [guilds |-> [g \in {h \in Guilds : configs[h] # 0} |-> objs[configs[g]]]]

\* ConfigManager(): __init__ and load_config, on the config.json found.
StartBot ==
    /\ ~constructed
    /\ constructed' = TRUE
    /\ \E f \in ConfigFiles :
        IF f = None
            THEN /\ UNCHANGED <<objects, guild_configs>>
                 /\ config_file' = Dump(objects, guild_configs)
            ELSE LET gs == DOMAIN f.guilds
                     id(g) == Cardinality({h \in gs : h <= g})
                 IN  /\ guild_configs' =
                            [g \in Guilds |-> IF g \in gs THEN id(g) ELSE 0]
                     /\ objects' =
                            [o \in ObjectIds |->
                                IF \E g \in gs : id(g) = o
                                    THEN LoadedGuildConfig(
                                            f.guilds[CHOOSE g \in gs : id(g) = o])
                                    ELSE None]
                     /\ config_file' = f
    /\ UNCHANGED <<coreVars, stepVars, skillVars, lateVars>>

\* get_guild_config(guild_id): the stored object, or a new default one.
get_guild_config(g) ==
    IF guild_configs[g] # 0 THEN objects[guild_configs[g]]
    ELSE GuildConfigInstance

\* The identity a new object gets.
NewObject ==
    CHOOSE o \in ObjectIds :
        /\ objects[o] = None
        /\ \A p \in ObjectIds : objects[p] = None => o <= p

\* guild_config = get_guild_config(g); guild_config.<field> = value;
\* set_guild_config(g, guild_config), which stores the object and saves.
SetField(g, field, value) ==
    LET stored == guild_configs[g] # 0
        o == IF stored THEN guild_configs[g] ELSE NewObject
        guild_config == get_guild_config(g)
    IN  /\ objects' = [objects EXCEPT ![o] =
                          [guild_config EXCEPT ![field] = value]]
        /\ guild_configs' = [guild_configs EXCEPT ![g] = o]
        /\ config_file' = Dump(objects', guild_configs')

\* /log_stream on <channel> and /log_stream off, in a guild.
LogStream ==
    /\ constructed
    /\ \E g \in Guilds, state \in {"on", "off"}, channel \in ChannelIds :
        SetField(g, "log_channel", IF state = "on" THEN channel ELSE NoChannel)
    /\ UNCHANGED <<constructed, coreVars, stepVars, skillVars, lateVars>>

\* /log_stream_mode live|batch, in a guild.
LogStreamMode ==
    /\ constructed
    /\ \E g \in Guilds, mode \in {"Live", "Batch"} :
        SetField(g, "stream_mode", mode)
    /\ UNCHANGED <<constructed, coreVars, stepVars, skillVars, lateVars>>

\* /crit success|fail [channel], in a guild.
Crit ==
    /\ constructed
    /\ \E g \in Guilds, kind \in {"success", "fail"},
          channel \in ChannelIds \cup {NoChannel} :
        SetField(g, IF kind = "success" THEN "crit_success_channel"
                                        ELSE "crit_fail_channel", channel)
    /\ UNCHANGED <<constructed, coreVars, stepVars, skillVars, lateVars>>

NextConfig == StartBot \/ LogStream \/ LogStreamMode \/ Crit

SpecConfig == Init /\ [][NextConfig]_vars

-----------------------------------------------------------------------------
(* models/database.py and cogs/skills_cog.py: the table skills and the     *)
(* /skill commands.  A row is a record of the seven columns; the UNIQUE    *)
(* constraint of the table is on (guild_id, user_id, normalized_name).     *)
(* A button of the SkillDeleteView is taken here with the message edit     *)
(* that ends its callback, as one step; the callbacks of a view are        *)
(* followed await by await for the ConfirmView of /admin further down.     *)

Users == {1, 2}

Skill(guild_id, user_id, name, normalized_name, skill_type, lvl, effect) ==
    [guild_id |-> guild_id, user_id |-> user_id, name |-> name,
     normalized_name |-> normalized_name, skill_type |-> skill_type,
     level |-> lvl, effect |-> effect]

\* str.lower() on the letters of the names used.
LowerChar(c) == IF c = "A" THEN "a" ELSE IF c = "B" THEN "b" ELSE c

lower(name) == [i \in 1..Len(name) |-> LowerChar(name[i])]

\* The columns of the UNIQUE constraint.
UniqueKey(r) == <<r.guild_id, r.user_id, r.normalized_name>>

\* add_skill as a plain INSERT without the ON CONFLICT clause taking effect.
add_skill_plain_insert(rows, guild_id, user_id, name, skill_type, lvl, effect) ==
    rows \cup {Skill(guild_id, user_id, name, lower(name), skill_type, lvl,
                     effect)}

\* add_skill: INSERT ... ON CONFLICT(guild_id, user_id, normalized_name) DO
\* UPDATE SET name, skill_type, level, effect; the table after it.
add_skill(rows, guild_id, user_id, name, skill_type, lvl, effect) ==
    LET normalized == lower(name)
        new == Skill(guild_id, user_id, name, normalized, skill_type, lvl,
                     effect)
    IN  {r \in rows : UniqueKey(r) # UniqueKey(new)} \cup {new}

\* delete_skill: DELETE ... WHERE guild_id = ? AND user_id = ? AND
\* normalized_name = ?; the table after it.
delete_skill(rows, guild_id, owner_id, normalized_name) ==
    {r \in rows : ~(/\ r.guild_id = guild_id
                     /\ r.user_id = owner_id
                     /\ r.normalized_name = normalized_name)}

\* text LIKE pattern as SQLite evaluates it: % matches any run of
\* characters, _ any one character, a letter matches in either case.
RECURSIVE LikeMatch(_, _)
LikeMatch(pattern, text) ==
    IF pattern = <<>> THEN text = <<>>
    ELSE IF Head(pattern) = "%"
        THEN \/ LikeMatch(Tail(pattern), text)
             \/ text # <<>> /\ LikeMatch(pattern, Tail(text))
    ELSE /\ text # <<>>
         /\ \/ Head(pattern) = "_"
            \/ LowerChar(Head(pattern)) = LowerChar(Head(text))
         /\ LikeMatch(Tail(pattern), Tail(text))

\* normalized_name LIKE pattern, the pattern being f"%{normalized}%".
Like(text, normalized) ==
    LikeMatch(<<"%">> \o normalized \o <<"%">>, text)

Abs(n) == IF n < 0 THEN 0 - n ELSE n

\* The order of two texts of lower-case letters, as SQLite compares TEXT.
CharRank(c) == IF c = "a" THEN 1 ELSE 2

RECURSIVE TextLess(_, _)
TextLess(a, b) ==
    IF b = <<>> THEN FALSE
    ELSE IF a = <<>> THEN TRUE
    ELSE IF a[1] # b[1] THEN CharRank(a[1]) < CharRank(b[1])
    ELSE TextLess(Tail(a), Tail(b))

\* ORDER BY CASE WHEN normalized_name = ? THEN 0 ELSE 1 END,
\*          ABS(LENGTH(normalized_name) - LENGTH(?)), normalized_name
OrderedBefore(q, r, normalized) ==
    LET e(x) == IF x.normalized_name = normalized THEN 0 ELSE 1
        d(x) == Abs(Len(x.normalized_name) - Len(normalized))
    IN  \/ e(q) < e(r)
        \/ e(q) = e(r) /\ d(q) < d(r)
        \/ e(q) = e(r) /\ d(q) = d(r)
           /\ TextLess(q.normalized_name, r.normalized_name)

\* find_skill_in_guild: the rows LIMIT 1 can return (rows that tie in the
\* order come in no defined order); none when nothing matches.
find_skill_in_guild(rows, guild_id, name) ==
    LET normalized == lower(name)
        matching == {r \in rows : /\ r.guild_id = guild_id
                                  /\ Like(r.normalized_name, normalized)}
    IN  {r \in matching :
            \A q \in matching : ~OrderedBefore(q, r, normalized)}

\* find_skill_for_user: the same query with AND user_id = ?.
find_skill_for_user(rows, guild_id, user_id, name) ==
    LET normalized == lower(name)
        matching == {r \in rows : /\ r.guild_id = guild_id
                                  /\ r.user_id = user_id
                                  /\ Like(r.normalized_name, normalized)}
    IN  {r \in matching :
            \A q \in matching : ~OrderedBefore(q, r, normalized)}

\* What a lookup returned: a Skill, or None.
Found(row) == [row |-> row]

\* The values fetchone() can give for the rows LIMIT 1 can return.
Fetched(candidates) ==
    IF candidates = {} THEN {Found(None)}
    ELSE {Found(r) : r \in candidates}

\* Number of rows the table is filled up to.
MaxRows == 2

\* The (guild, user) pairs that run commands: two users of one server, one of
\* whom is also in the other server.
Members == {<<1, 1>>, <<1, 2>>, <<2, 1>>}

\* The names skills are added under, and the names searched for.
AddNames == {<<"a">>, <<"A">>, <<"a", "b">>}

SearchNames == AddNames \cup {<<"b">>, <<"B", "a">>, <<"_">>}

\* (skill_type, level, effect) of the skills added.
SkillAttrs == {<<"t1", "l1", "e1">>, <<"t2", "l2", "e2">>}

\* /skill add <name> <type> <level> <effect> by user_id in a guild.
SkillAdd ==
    /\ \E m \in Members, name \in AddNames, a \in SkillAttrs :
        LET g == m[1]
            u == m[2]
            same == {r \in skills :
                        UniqueKey(r) = <<g, u, lower(name)>>}
        IN  /\ same # {} \/ Cardinality(skills) < MaxRows
            /\ skills' = add_skill(skills, g, u, name, a[1], a[2], a[3])
            /\ request' = [guild_id |-> g, user_id |-> u, name |-> name,
                           skill_type |-> a[1], level |-> a[2],
                           effect |-> a[3],
                           previous |-> {r.name : r \in same}]
    /\ found' = None
    /\ fn' = "skill_add"
    /\ UNCHANGED <<view, shown>>
    /\ UNCHANGED <<rules, cocVars, multiVars, diceVars, results, raised,
                   draws, stepVars, configVars, adminVars>>

\* /skill delete <name> by author_id in a guild: the dialog, when a skill
\* of the guild matches; a message and nothing else when none does.
SkillDelete ==
    /\ \E m \in Members, name \in SearchNames :
        \E f \in Fetched(find_skill_in_guild(skills, m[1], name)) :
            IF f.row = None
                THEN UNCHANGED <<view, shown>>
                ELSE /\ view' = [author_id |-> m[2], guild_id |-> m[1],
                                 normalized_name |-> f.row.normalized_name,
                                 skill_name |-> f.row.name]
                     /\ shown' = f.row
    /\ found' = None
    /\ request' = None
    /\ fn' = "skill_delete"
    /\ UNCHANGED skills
    /\ UNCHANGED <<rules, cocVars, multiVars, diceVars, results, raised,
                   draws, stepVars, configVars, adminVars>>

\* /skill show <name> by user_id in a guild.
SkillShow ==
    /\ \E m \in Members, name \in SearchNames :
        \E f \in Fetched(find_skill_for_user(skills, m[1], m[2], name)) :
            /\ found' = f
            /\ request' = [guild_id |-> m[1], user_id |-> m[2],
                           name |-> name]
    /\ fn' = "skill_show"
    /\ UNCHANGED <<skills, view, shown>>
    /\ UNCHANGED <<rules, cocVars, multiVars, diceVars, results, raised,
                   draws, stepVars, configVars, adminVars>>

\* The button of the dialog pressed by the user who ran the command (any
\* other user is turned away and nothing changes).
ConfirmDelete ==
    /\ view # None
    /\ \E user \in Users :
        /\ user = view.author_id
        /\ skills' = delete_skill(skills, view.guild_id, view.author_id,
                                  view.normalized_name)
    /\ view' = None
    /\ shown' = None
    /\ found' = None
    /\ fn' = "confirm_delete"
    /\ request' = None
    /\ UNCHANGED <<rules, cocVars, multiVars, diceVars, results, raised,
                   draws, stepVars, configVars, adminVars>>

\* The cancel button pressed by the user who ran the command.
CancelDelete ==
    /\ view # None
    /\ \E user \in Users : user = view.author_id
    /\ view' = None
    /\ shown' = None
    /\ found' = None
    /\ fn' = "cancel_delete"
    /\ request' = None
    /\ UNCHANGED skills
    /\ UNCHANGED <<rules, cocVars, multiVars, diceVars, results, raised,
                   draws, stepVars, configVars, adminVars>>

NextSkills == SkillAdd \/ SkillDelete \/ ConfirmDelete \/ CancelDelete

SpecSkills == Init /\ [][NextSkills]_vars

\* One call find_skill_in_guild(guild_id, name), as /skill delete makes it.
FindSkillInGuild ==
    /\ \E g \in Guilds, name \in SearchNames :
        \E f \in Fetched(find_skill_in_guild(skills, g, name)) :
            /\ found' = f
            /\ request' = [guild_id |-> g, user_id |-> 0, name |-> name]
    /\ fn' = "find_skill_in_guild"
    /\ UNCHANGED <<skills, view, shown>>
    /\ UNCHANGED <<rules, cocVars, multiVars, diceVars, results, raised,
                   draws, stepVars, configVars, adminVars>>

\* The lookups, on the tables /skill add builds.
NextLookup == SkillAdd \/ SkillShow \/ FindSkillInGuild

SpecLookup == Init /\ [][NextLookup]_vars

-----------------------------------------------------------------------------
(* utils/config.py: the developer list of the ConfigManager, and           *)
(* cogs/admin_cog.py: the /admin command and its ConfirmView.              *)
(*                                                                         *)
(* A button callback of the view runs as a task of its own: it tests the   *)
(* user, then awaits interaction.response.edit_message(view=None), and     *)
(* goes on when the edit is done.  While a callback waits, the message     *)
(* still shows its buttons and other interactions are handled.  The view   *)
(* is never stopped by the code; it stops listening when it times out.     *)
(* One ConfirmView is followed at a time: a command that creates a view    *)
(* is taken when the view before it can no longer be pressed and has no    *)
(* callback waiting.                                                       *)

\* The target_user of a ConfirmView without one, and the user argument of
\* /admin left out (None).
NoUser == 0

\* GlobalConfig(developers=[], ...) with one developer built in.
DefaultDevelopers_one == <<1>>

\* The developers of the GlobalConfig __init__ constructs.
DefaultDevelopers == <<>>

\* user_id in developers
InList(devs, user_id) == \E i \in 1..Len(devs) : devs[i] = user_id

\* is_developer that takes every user for a developer.
is_developer_anyone(devs, user_id) == TRUE

\* is_developer(user_id)
is_developer(devs, user_id) == InList(devs, user_id)

\* list.remove(x): the list without its first x.
RemoveFirst(devs, x) ==
    LET i == CHOOSE k \in 1..Len(devs) :
                 devs[k] = x /\ \A j \in 1..(k - 1) : devs[j] # x
    IN  SubSeq(devs, 1, i - 1) \o SubSeq(devs, i + 1, Len(devs))

\* What a call on the developer list gives: the value returned, the list
\* after the call, and whether save_config was called.
DevResult(returned, devs, saved) ==
    [returned |-> returned, developers |-> devs, saved |-> saved]

\* add_developer that appends without looking.
add_developer_unchecked(devs, user_id) ==
    DevResult(TRUE, Append(devs, user_id), TRUE)

\* add_developer(user_id)
add_developer(devs, user_id) ==
    IF InList(devs, user_id) THEN DevResult(FALSE, devs, FALSE)
    ELSE DevResult(TRUE, Append(devs, user_id), TRUE)

\* remove_developer(user_id)
remove_developer(devs, user_id) ==
    IF ~InList(devs, user_id) THEN DevResult(FALSE, devs, FALSE)
    ELSE DevResult(TRUE, RemoveFirst(devs, user_id), TRUE)

\* What save_config writes of the global configuration (the developers; the
\* other fields never change).
SaveGlobal(devs) == [global |-> [developers |-> devs]]

\* The config.json found when the bot starts, as far as its "global"
\* section goes: no file, a section without "developers", or a list written
\* by hand.
GlobalFiles ==
    {None, [global |-> <<>>]}
    \cup {[global |-> [developers |-> d]] :
            d \in {<<>>, <<1>>, <<1, 2>>, <<1, 1>>}}

\* ConfigManager(): __init__ and load_config, for the global configuration
\* (StartBot is the same call for the guild configurations).
StartBotGlobal ==
    /\ ~constructed
    /\ constructed' = TRUE
    /\ \E f \in GlobalFiles :
        /\ developers' = IF f = None THEN DefaultDevelopers
                         ELSE Get(f.global, "developers", <<>>)
        /\ global_file' = IF f = None THEN SaveGlobal(developers') ELSE f
        /\ boot' = IF f = None \/ Get(f.global, "developers", <<>>) = <<>>
                      THEN "default" ELSE "file"
    /\ fn' = "ConfigManager"
    /\ outcome' = ""
    /\ UNCHANGED <<running, admin_request, admin_view, tasks>>
    /\ UNCHANGED <<rules, cocVars, multiVars, diceVars, results, raised,
                   draws, stepVars, objects, guild_configs, config_file,
                   skillVars, found>>

\* The action strings given to /admin.
ActionTexts ==
    {"restart", "shutdown", "dev_add", "dev_remove", "dev_list", "RESTART",
     "promote"}

\* action.lower() on the strings given.
ActionLower(action) ==
    CASE action = "RESTART" -> "restart"
      [] OTHER -> action

\* ConfirmView(author_id, action, ctx, admin_cog, target_user), sent with
\* its buttons.
ConfirmView(author_id, action, target_user) ==
    [author_id |-> author_id, action |-> action,
     target_user |-> target_user,
     components |-> TRUE,    \* the message shows the buttons
     listening |-> TRUE,     \* the view has not timed out
     cancelled |-> FALSE,    \* the cancel of the author has been taken
     after_cancel |-> FALSE] \* ... and the author's confirm after it

\* No button of the view can be pressed any more and no callback waits.
ViewOver ==
    IF admin_view = None THEN TRUE
    ELSE tasks = {} /\ ~(admin_view.components /\ admin_view.listening)

\* The guarded actions: what execute_restart, execute_shutdown,
\* execute_dev_add and execute_dev_remove leave as outcome.
ExecutedOutcomes ==
    {"restart", "shutdown", "added", "already", "removed", "not_present"}

\* /admin <action> [user] by author_id.
AdminCommand ==
    /\ constructed
    /\ running
    /\ \E author_id \in Users, action \in ActionTexts,
          user \in Users \cup {NoUser} :
        LET a == ActionLower(action)
            dialog ==
                /\ is_developer(developers, author_id)
                /\ \/ a \in {"restart", "shutdown"}
                   \/ a \in {"dev_add", "dev_remove"} /\ user # NoUser
        IN  /\ dialog => ViewOver
            /\ admin_request' = [author_id |-> author_id, action |-> action,
                                 user |-> user]
            /\ outcome' =
                    IF ~is_developer(developers, author_id) THEN "denied"
                    ELSE IF dialog THEN "dialog"
                    ELSE IF a \in {"dev_add", "dev_remove"}
                        THEN "missing_user"
                    ELSE IF a = "dev_list" THEN "dev_list"
                    ELSE "invalid"
            /\ admin_view' =
                    IF ~dialog THEN admin_view
                    ELSE IF a \in {"restart", "shutdown"}
                        THEN ConfirmView(author_id, a, NoUser)
                    ELSE ConfirmView(author_id, a, user)
    /\ fn' = "admin_command"
    /\ UNCHANGED <<developers, global_file, boot, running, tasks>>
    /\ UNCHANGED <<rules, cocVars, multiVars, diceVars, results, raised,
                   draws, stepVars, configVars, skillVars, found>>

\* A button of the view pressed by a user: the callback up to its first
\* await.  Another user than the author is turned away; the author's
\* callback goes on to edit the message.
Press ==
    /\ running
    /\ admin_view # None
    /\ admin_view.components
    /\ admin_view.listening
    /\ \E user \in Users, button \in {"confirm", "cancel"} \ tasks :
        /\ admin_request' = [author_id |-> user, action |-> button,
                             user |-> NoUser]
        /\ fn' = button
        /\ IF user # admin_view.author_id
              THEN /\ outcome' = "rejected"
                   /\ UNCHANGED <<admin_view, tasks>>
              ELSE /\ outcome' = "accepted"
                   /\ tasks' = tasks \cup {button}
                   /\ admin_view' =
                        [admin_view EXCEPT
                            !.cancelled = @ \/ button = "cancel",
                            !.after_cancel =
                                @ \/ (button = "confirm"
                                      /\ admin_view.cancelled)]
    /\ UNCHANGED <<developers, global_file, boot, running>>
    /\ UNCHANGED <<rules, cocVars, multiVars, diceVars, results, raised,
                   draws, stepVars, configVars, skillVars, found>>

\* edit_message(embed, view=None) of a waiting callback done: the buttons
\* are gone.  The cancel callback ends; the confirm callback executes the
\* action of the view.  execute_restart and execute_shutdown end the
\* process, or return when restart_mode is "service" and no service is set.
EditDone ==
    /\ running
    /\ \E button \in tasks :
        LET target == admin_view.target_user
            call == IF admin_view.action = "dev_add"
                        THEN add_developer(developers, target)
                        ELSE remove_developer(developers, target)
        IN  /\ tasks' = tasks \ {button}
            /\ admin_view' = [admin_view EXCEPT !.components = FALSE]
            /\ fn' = IF button = "confirm" THEN "confirm_resumed"
                                           ELSE "cancel_resumed"
            /\ IF button = "cancel"
                  THEN /\ outcome' = "cancelled"
                       /\ UNCHANGED <<developers, global_file, running>>
               ELSE IF admin_view.action \in {"restart", "shutdown"}
                  THEN /\ outcome' = admin_view.action
                       /\ running' \in BOOLEAN
                       /\ UNCHANGED <<developers, global_file>>
               ELSE /\ developers' = call.developers
                    /\ global_file' = IF call.saved
                                         THEN SaveGlobal(call.developers)
                                         ELSE global_file
                    /\ outcome' =
                          IF admin_view.action = "dev_add"
                              THEN (IF call.returned THEN "added"
                                                     ELSE "already")
                              ELSE (IF call.returned THEN "removed"
                                                     ELSE "not_present")
                    /\ UNCHANGED running
    /\ UNCHANGED <<boot, admin_request>>
    /\ UNCHANGED <<rules, cocVars, multiVars, diceVars, results, raised,
                   draws, stepVars, configVars, skillVars, found>>

\* The view's timeout with no interaction: the view stops listening.
Timeout ==
    /\ running
    /\ admin_view # None
    /\ admin_view.listening
    /\ admin_view' = [admin_view EXCEPT !.listening = FALSE]
    /\ fn' = "on_timeout"
    /\ outcome' = "timed_out"
    /\ UNCHANGED <<developers, global_file, boot, running, admin_request,
                   tasks>>
    /\ UNCHANGED <<rules, cocVars, multiVars, diceVars, results, raised,
                   draws, stepVars, configVars, skillVars, found>>

NextAdmin == StartBotGlobal \/ AdminCommand \/ Press \/ EditDone \/ Timeout

SpecAdmin == Init /\ [][NextAdmin]_vars

-----------------------------------------------------------------------------
(* Claims about the CoC resolver, checked under SpecCoc.                   *)

\* The tier list of the specification, with floored thresholds.
FlooredTier(r, skill, cfg) ==
    IF r = cfg.coc_critical_success THEN 1
    ELSE IF (IF skill < 50 THEN r >= 96 ELSE r = cfg.coc_critical_fail) THEN 6
    ELSE IF r = 100 \/ r <= skill \div cfg.coc_skill_divisor_extreme THEN 2
    ELSE IF r <= skill \div cfg.coc_skill_divisor_hard THEN 3
    ELSE IF r <= skill THEN 4
    ELSE 5

\* C1: for every roll and skill value in 1..100 and every configuration with
\* positive divisors, the tier determine_success_level returns is the first
\* matching tier of the list CriticalSuccess, CriticalFailure, ExtremeSuccess
\* (roll = 100 or roll <= floor(skill / extreme divisor)), HardSuccess
\* (roll <= floor(skill / hard divisor)), RegularSuccess, Failure: comparing
\* against the unfloored quotient gives the floored reference's result.
C1_FirstMatchingTier ==
    fn = "roll_coc" =>
        /\ rules.coc_skill_divisor_hard > 0
        /\ rules.coc_skill_divisor_extreme > 0
        /\ level = FlooredTier(roll, skill_value, rules)

\* A roll equal to the floor of a quotient that is not an integer, classified
\* ExtremeSuccess.
C1_Witness ==
    /\ fn = "roll_coc"
    /\ skill_value % rules.coc_skill_divisor_extreme # 0
    /\ roll = skill_value \div rules.coc_skill_divisor_extreme
    /\ roll # rules.coc_critical_success
    /\ level = 2

\* C2: the critical-failure flag of a roll is, for a skill value below 50,
\* roll >= 96 whatever the configured critical-fail value, and for a skill
\* value of 50 or more, roll = the configured critical-fail value; under the
\* default configuration skill < 50 with a roll in 96..100, and skill >= 50
\* with roll 100, are classified CriticalFailure (tier 6).
C2_CriticalFailureTest ==
    fn = "roll_coc" =>
        /\ skill_value < 50 => (results[1].is_critical_fail <=> roll >= 96)
        /\ skill_value >= 50 =>
              (results[1].is_critical_fail <=> roll = rules.coc_critical_fail)
        /\ (rules = GuildConfig /\ skill_value < 50 /\ roll \in 96..100)
              => level = 6
        /\ (rules = GuildConfig /\ skill_value >= 50 /\ roll = 100)
              => level = 6

\* Skill 40 rolling 97 under the default configuration: CriticalFailure.
C2_Witness ==
    /\ fn = "roll_coc"
    /\ rules = GuildConfig
    /\ skill_value = 40
    /\ roll = 97
    /\ level = 6
    /\ results[1].is_critical_fail

\* C3 as stated: under the default configuration roll 10 against skill 50 is
\* HardSuccess (tier 3).
C3_Original ==
    (fn = "roll_coc" /\ rules = GuildConfig /\ roll = 10 /\ skill_value = 50)
        => level = 3

\* C3 as amended: under the default configuration roll 10 against skill 50 is
\* ExtremeSuccess (tier 2, 10 <= 50 / 5), and the rolls 11..25 against skill 50
\* are HardSuccess (tier 3).
C3_Amended ==
    (fn = "roll_coc" /\ rules = GuildConfig /\ skill_value = 50) =>
        /\ roll = 10 => level = 2
        /\ roll \in 11..25 => level = 3

C3_Witness ==
    /\ fn = "roll_coc"
    /\ rules = GuildConfig
    /\ roll = 10
    /\ skill_value = 50
    /\ level = 2

\* C11: the overall success flag of a CoC outcome (comparison_result of
\* roll_coc) is true exactly when the tier classified for the same roll,
\* skill value and configuration is CriticalSuccess, ExtremeSuccess,
\* HardSuccess or RegularSuccess (tier <= 4), false exactly when the tier is
\* Failure or CriticalFailure, and never not-applicable (None).
C11_SuccessFlag ==
    /\ fn = "roll_coc" =>
        LET flag == results[1].comparison_result
        IN  /\ flag # None
            /\ flag = Some(TRUE) <=> level \in {1, 2, 3, 4}
            /\ flag = Some(FALSE) <=> level \in {5, 6}
    /\ fn = "roll_coc_multi" =>
        \A k \in 1..Len(results) :
            LET flag == results[k].comparison_result
                tier == FlooredTier(draws[k], skill_value, rules)
            IN  /\ flag # None
                /\ flag = Some(TRUE) <=> tier \in {1, 2, 3, 4}
                /\ flag = Some(FALSE) <=> tier \in {5, 6}

\* A roll of 100 that is no critical failure: ExtremeSuccess, flagged a
\* success although the roll is above the skill value.
C11_Witness ==
    /\ fn = "roll_coc"
    /\ roll = 100
    /\ skill_value < 100
    /\ level = 2
    /\ results[1].comparison_result = Some(TRUE)

\* C13: roll_coc_multi with a skill value in 1..100 and times in 1..10
\* returns exactly times outcomes, each produced by one draw, each with its
\* roll in 1..100, a rolls sequence holding only that roll, total equal to
\* that roll and modifier 0.
C13_CocBatch ==
    fn = "roll_coc_multi" =>
        /\ skill_value \in 1..100
        /\ times \in 1..10
        /\ Len(results) = times
        /\ Len(draws) = times
        /\ \A k \in 1..Len(results) :
            /\ draws[k] \in 1..100
            /\ results[k].rolls = <<draws[k]>>
            /\ results[k].total = draws[k]
            /\ results[k].modifier = 0

\* Ten rolls, the first two of them different.
C13_Witness ==
    /\ fn = "roll_coc_multi"
    /\ times = 10
    /\ Len(results) = 10
    /\ results[1].total = 100
    /\ results[2].total = 1

\* C18: format_success_level gives each of the six tiers 1..6 a label of its
\* own, none of them the Unknown fallback, and determine_success_level only
\* returns a tier in 1..6, so that the fallback is never the label of a
\* classified roll.
C18_TierLabels ==
    /\ (fn = "format_success_level" /\ level \in 1..6) =>
        /\ success_text # "(Unknown)"
        /\ \A other \in 1..6 :
              other # level => format_success_level(other) # success_text
    /\ fn = "roll_coc" =>
        /\ level \in 1..6
        /\ format_success_level(level) # "(Unknown)"

\* The last tier labelled.
C18_Witness ==
    /\ fn = "format_success_level"
    /\ level = 6
    /\ success_text = "(Critical Failure)"

\* C25: in every outcome of roll_coc, for every configuration whose
\* coc_critical_success and coc_critical_fail are in 1..100,
\* is_critical_success is true iff the classified tier is CriticalSuccess
\* (1), is_critical_fail is true iff the tier is CriticalFailure (6), the two
\* flags are never both true, and an outcome whose success flag is true
\* never has is_critical_fail true.
C25_FlagsMatchTier ==
    (/\ fn = "roll_coc"
     /\ rules.coc_critical_success \in 1..100
     /\ rules.coc_critical_fail \in 1..100) =>
        /\ results[1].is_critical_success <=> level = 1
        /\ results[1].is_critical_fail <=> level = 6
        /\ ~(results[1].is_critical_success /\ results[1].is_critical_fail)
        /\ results[1].comparison_result = Some(TRUE)
              => ~results[1].is_critical_fail

\* C26: the tier label of every line of the message /coc sends is the label
\* of the tier obtained by classifying that line's roll under the guild's
\* own configuration, the one that produced the flags of the outcome.
C26_LabelUnderGuildRules ==
    fn = "coc_command" =>
        /\ Len(coc_message) = Len(results)
        /\ \A k \in 1..Len(coc_message) :
              coc_message[k].success_text =
                  format_success_level(
                      determine_success_level(results[k].total, skill_value,
                                              rules))

\* C27: under the default configuration, for every roll and skill value in
\* 1..100, the success flag is true iff roll <= skill_value and roll # 100;
\* a roll of 100 is always CriticalFailure, so that ExtremeSuccess is only
\* ever reached through the extreme threshold.
C27_DefaultSuccessFlag ==
    (fn = "roll_coc" /\ rules = GuildConfig) =>
        /\ results[1].comparison_result = Some(TRUE)
              <=> (roll <= skill_value /\ roll # 100)
        /\ results[1].comparison_result = Some(FALSE)
              <=> ~(roll <= skill_value /\ roll # 100)
        /\ roll = 100 => level = 6
        /\ level = 2 =>
              (roll # 100 /\ roll * CocSkillDivisorExtremeDefault <= skill_value)

\* A roll of 100 against skill 100: not above the skill value, yet a
\* critical failure.
C27_Witness ==
    /\ fn = "roll_coc"
    /\ rules = GuildConfig
    /\ roll = 100
    /\ skill_value = 100
    /\ level = 6
    /\ results[1].comparison_result = Some(FALSE)

\* C28: under the default configuration the tier never gets better as the
\* roll grows (skill value fixed) and never gets worse as the skill value
\* grows (roll fixed), the tiers being ranked 1 (CriticalSuccess) to 6
\* (CriticalFailure).
C28_TiersMonotonic ==
    (fn = "roll_coc" /\ rules = GuildConfig) =>
        /\ \A r2 \in (roll + 1)..CocRollMax :
              level <= determine_success_level(r2, skill_value, rules)
        /\ \A s2 \in (skill_value + 1)..SkillMax :
              determine_success_level(roll, s2, rules) <= level

\* A roll of 96 against skill 49, a critical failure that one more point of
\* skill turns into a plain failure, with a better tier for every lower roll.
C28_Witness ==
    /\ fn = "roll_coc"
    /\ rules = GuildConfig
    /\ roll = 96
    /\ skill_value = 49
    /\ level = 6
    /\ determine_success_level(96, 50, rules) = 5
    /\ determine_success_level(95, 49, rules) = 5

-----------------------------------------------------------------------------
(* Claims about the parser, checked under SpecParse.                       *)

\* The kind of a raised error: the format error of parse_dice_expr is
\* InvalidExpression, every bound error is OutOfRange.
ErrorKind(message) ==
    IF message = "None" THEN "None"
    ELSE IF message = "format" THEN "InvalidExpression"
    ELSE "OutOfRange"

IsDigits(s) == \A i \in 1..Len(s) : s[i] \in Digit

AllSpaces(s) == \A i \in 1..Len(s) : s[i] = " "

\* "" or a sign followed by one or more digits.
IsModifierText(m) ==
    \/ m = <<>>
    \/ Len(m) >= 2 /\ m[1] \in {"+", "-"} /\ IsDigits(Tail(m))

\* "" or spaces, an operator, spaces and one or more digits.
IsComparisonText(c) ==
    \/ c = <<>>
    \/ \E a \in 0..Len(c) :
        /\ AllSpaces(SubSeq(c, 1, a))
        /\ \E b \in {a + 1, a + 2} :
            /\ b <= Len(c)
            /\ SubSeq(c, a + 1, b) \in {OpText(op) : op \in Ops}
            /\ \E e \in b..(Len(c) - 1) :
                /\ AllSpaces(SubSeq(c, b + 1, e))
                /\ IsDigits(SubSeq(c, e + 1, Len(c)))

\* The readings of s as [count]d sides[+|-modifier][ op threshold]: the
\* written count (1 when absent) and sides of every way to split s so.
TermReadings(s) ==
    UNION {
        {[count |-> IF i = 1 THEN 1 ELSE NatOfDigits(SubSeq(s, 1, i - 1)),
          sides |-> NatOfDigits(SubSeq(s, i + 1, j))] :
            j \in {k \in (i + 1)..Len(s) :
                    /\ IsDigits(SubSeq(s, i + 1, k))
                    /\ \E m \in k..Len(s) :
                        /\ IsModifierText(SubSeq(s, k + 1, m))
                        /\ IsComparisonText(SubSeq(s, m + 1, Len(s)))}} :
        i \in {k \in 1..Len(s) :
                s[k] = "d" /\ IsDigits(SubSeq(s, 1, k - 1))}}

\* The readings of a text as a single-roll expression with whitespace
\* around it; none when the text is not of the grammar.
GrammarReadings(t) ==
    UNION {
        UNION {TermReadings(SubSeq(t, a, b)) :
                b \in {k \in a..Len(t) : AllSpaces(SubSeq(t, k + 1, Len(t)))}} :
        a \in {k \in 1..Len(t) : AllSpaces(SubSeq(t, 1, k - 1))}}

OutOfCaps(count, sides, cfg) ==
    \/ count = 0
    \/ count > cfg.dnd_max_dice_count
    \/ sides < 2
    \/ sides > cfg.dnd_max_dice_sides

\* C8: parse_dice_expr fails with InvalidExpression exactly when the text is
\* not of the single-roll grammar, fails with OutOfRange exactly when it is
\* and its count is 0 or above maxDiceCount or its sides are below 2 or
\* above maxDiceSides, and otherwise returns a specification with
\* 1 <= count <= maxDiceCount and 2 <= sides <= maxDiceSides (the caps
\* themselves accepted).
C8_ParseErrors ==
    fn = "parse_dice_expr" =>
        LET R == GrammarReadings(expr)
        IN  /\ ErrorKind(raised) = "InvalidExpression" <=> R = {}
            /\ ErrorKind(raised) = "OutOfRange" <=>
                  \E r \in R : OutOfCaps(r.count, r.sides, rules)
            /\ raised = "None" =>
                  /\ 1 <= parsed.count
                  /\ parsed.count <= rules.dnd_max_dice_count
                  /\ 2 <= parsed.sides
                  /\ parsed.sides <= rules.dnd_max_dice_sides
                  /\ \E r \in R : r.count = parsed.count
                                  /\ r.sides = parsed.sides

\* A text with count and sides exactly at the caps, accepted.
C8_Witness ==
    /\ fn = "parse_dice_expr"
    /\ raised = "None"
    /\ written # None
    /\ parsed.count = rules.dnd_max_dice_count
    /\ parsed.sides = rules.dnd_max_dice_sides

\* C9: for every text written as [count]d sides[+|-modifier][ op threshold]
\* with its numbers within the caps, with or without whitespace around the
\* term and around the operator, parse_dice_expr returns count = the written
\* count (1 when absent), sides = the written sides, modifier = the signed
\* written modifier (0 when absent) and comparison = (op, threshold) (None
\* when absent); "2d6+1" gives (2, 6, 1, None), "d20>=15" (1, 20, 0, (>=, 15)).
C9_ParseValues ==
    fn = "parse_dice_expr" =>
        /\ (written # None
            /\ ~OutOfCaps(written[1].count, written[1].sides, rules))
              => raised = "None" /\ parsed = written[1]
        /\ (expr = <<"2", "d", "6", "+", "1">> /\ rules = GuildConfig)
              => raised = "None" /\ parsed = DiceRoll(2, 6, 1, None)
        /\ (expr = <<"d", "2", "0", ">", "=", "1", "5">> /\ rules = GuildConfig)
              => raised = "None" /\ parsed = DiceRoll(1, 20, 0, <<">=", 15>>)

\* A text with a negative modifier and a spaced comparison, parsed.
C9_Witness ==
    /\ fn = "parse_dice_expr"
    /\ raised = "None"
    /\ written # None
    /\ parsed.modifier < 0
    /\ parsed.comparison = <<"<=", 15>>
    /\ Len(expr) > Len(strip(expr))
    /\ \E i \in 1..Len(expr) - 1 : expr[i] = " " /\ expr[i + 1] = "<"

-----------------------------------------------------------------------------
(* Claims about roll_dice and roll_multiple_dice, checked under SpecDice.  *)
(* In a state reached by roll_multiple_dice, dice is the parsed DiceRoll   *)
(* it passed to roll_dice and results holds one outcome per call.          *)

Rolled == fn \in {"roll_dice", "roll_multiple_dice"} /\ raised = "None"

\* C4: for every valid specification the outcome of roll_dice has exactly
\* count rolls, each in 1..sides, the specification's modifier, and
\* total = sum(rolls) + modifier, hence
\* count + modifier <= total <= count * sides + modifier.
C4_RollShape ==
    Rolled =>
        /\ dice.count >= 1 /\ dice.sides >= 2
        /\ \A k \in 1..Len(results) :
            LET out == results[k]
            IN  /\ Len(out.rolls) = dice.count
                /\ \A i \in 1..Len(out.rolls) :
                      1 <= out.rolls[i] /\ out.rolls[i] <= dice.sides
                /\ out.modifier = dice.modifier
                /\ out.total = sum(out.rolls) + dice.modifier
                /\ dice.count + dice.modifier <= out.total
                /\ out.total <= dice.count * dice.sides + dice.modifier

\* Two dice, a negative modifier, and a total below zero.
C4_Witness ==
    /\ fn = "roll_dice"
    /\ dice.count = 2
    /\ dice.modifier < 0
    /\ results[1].rolls = <<1, 1>>
    /\ results[1].total = 0 - 1

\* C5: in every outcome of the generic evaluator, under every configuration,
\* isCriticalSuccess is true iff sides = 20 and a rolled die equals the
\* configuration's dnd_critical_success, and isCriticalFail is true iff
\* sides = 20 and a rolled die equals the configuration's dnd_critical_fail.
C5_ConfiguredCriticals ==
    (fn = "roll_multiple_dice" /\ raised = "None") =>
        \A k \in 1..Len(results) :
            /\ results[k].is_critical_success <=>
                  (dice.sides = 20
                   /\ Contains(results[k].rolls, rules.dnd_critical_success))
            /\ results[k].is_critical_fail <=>
                  (dice.sides = 20
                   /\ Contains(results[k].rolls, rules.dnd_critical_fail))

\* C6: for every specification with sides # 20 and every sequence of rolled
\* values, the outcome has isCriticalSuccess = isCriticalFail = false.
C6_NoCriticalsOffD20 ==
    (Rolled /\ dice.sides # 20) =>
        \A k \in 1..Len(results) :
            /\ ~results[k].is_critical_success
            /\ ~results[k].is_critical_fail

\* A 21-sided roll showing both a 20 and a 1, with no flag raised.
C6_Witness ==
    /\ fn = "roll_dice"
    /\ dice.sides = 21
    /\ Contains(results[1].rolls, 20)
    /\ Contains(results[1].rolls, 1)
    /\ ~results[1].is_critical_success
    /\ ~results[1].is_critical_fail

\* C7: the comparison result is None when the specification has no
\* comparison, and with a comparison (op, threshold), op among >=, >, <=, <,
\* it is the boolean total op threshold, never None, also for threshold 0 and
\* negative totals.
C7_ComparisonTriState ==
    Rolled =>
        \A k \in 1..Len(results) :
            LET out == results[k]
                q == dice.comparison
            IN  /\ q = None => out.comparison_result = None
                /\ q # None =>
                    /\ q[1] \in Ops
                    /\ q[1] = ">=" =>
                          out.comparison_result = Some(out.total >= q[2])
                    /\ q[1] = ">" =>
                          out.comparison_result = Some(out.total > q[2])
                    /\ q[1] = "<=" =>
                          out.comparison_result = Some(out.total <= q[2])
                    /\ q[1] = "<" =>
                          out.comparison_result = Some(out.total < q[2])

\* "2d2-3 >= 0" parsed and rolled to a negative total: the comparison with
\* threshold 0 fails, it is not None.
C7_Witness ==
    /\ fn = "roll_multiple_dice"
    /\ raised = "None"
    /\ dice.comparison = <<">=", 0>>
    /\ results[1].total < 0
    /\ results[1].comparison_result = Some(FALSE)

\* C12: for every valid specification (count >= 1 and sides >= 2 within the
\* caps, a negative, zero or positive modifier) parse_dice_expr of its
\* format_dice_expr succeeds and returns the same count, sides and modifier
\* and no comparison; and the expression stored in every outcome is
\* format_dice_expr of the evaluated specification, which reads back so.
C12_RoundTrip ==
    /\ fn = "format_dice_expr" =>
        /\ dice.count >= 1 /\ dice.sides >= 2
        /\ parse_dice_expr(expr, rules) =
              Return(DiceRoll(dice.count, dice.sides, dice.modifier, None))
    /\ Rolled =>
        \A k \in 1..Len(results) :
            /\ results[k].dice_expr = format_dice_expr(dice)
            /\ parse_dice_expr(results[k].dice_expr, rules) =
                  Return(DiceRoll(dice.count, dice.sides, dice.modifier, None))

\* A specification at the caps with a positive modifier and a comparison,
\* rendered without the comparison.
C12_Witness ==
    /\ fn = "format_dice_expr"
    /\ dice = DiceRoll(50, 1000, 10, <<">=", 15>>)
    /\ expr = <<"5", "0", "d", "1", "0", "0", "0", "+", "1", "0">>

\* C16: a call of roll_multiple_dice that fails (InvalidExpression or
\* OutOfRange) has drawn no random number and returned no outcome: the repeat
\* count and the nested expression are validated before the first draw, and
\* the state the call leaves is the state before it (nothing drawn, nothing
\* parsed or rolled kept) apart from the error handed to the caller.
C16_FailedCallDrawsNothing ==
    (fn = "roll_multiple_dice" /\ raised # "None") =>
        /\ ErrorKind(raised) \in {"InvalidExpression", "OutOfRange"}
        /\ draws = <<>>
        /\ results = <<>>
        /\ dice = NoDice
        /\ parsed = NoDice

\* "0 d6", a valid nested expression repeated zero times, refused.
C16_Witness ==
    /\ fn = "roll_multiple_dice"
    /\ expr = <<"0", " ", "d", "6">>
    /\ raised = "rolls_zero"
    /\ draws = <<>>

\* [+], one or more digits, one or more spaces, and something after them.
IsWrapperShape(s) ==
    \E p \in {0, 1} :
        /\ p = 1 => (s # <<>> /\ s[1] = "+")
        /\ \E i \in 1..Len(s), j \in 1..Len(s) :
            /\ p < i /\ i < j /\ j < Len(s)
            /\ IsDigits(SubSeq(s, p + 1, i))
            /\ AllSpaces(SubSeq(s, i + 1, j))

\* C10: a text written as [+]N, one or more spaces and a nested single-roll
\* expression fails with OutOfRange when N = 0 or N > max_rolls, and
\* otherwise, the nested expression parsing, returns exactly N outcomes, all
\* of the one specification parsed from the nested expression ("+3 d6": 3
\* outcomes of 1d6; "11 d6" with max_rolls 10 fails); a text that is no
\* wrapper is parsed as one single-roll expression and gives one outcome.
C10_MultiRoll ==
    fn = "roll_multiple_dice" =>
        /\ written # None =>
            LET n == written[1].repeat
                nested == parse_dice_expr(written[1].nested, rules)
            IN  GrammarReadings(written[1].nested) # {} =>
                  /\ (n = 0 \/ n > max_rolls)
                        => ErrorKind(raised) = "OutOfRange"
                  /\ (1 <= n /\ n <= max_rolls) =>
                        /\ raised = nested.raised
                        /\ raised = "None" =>
                            /\ Len(results) = n
                            /\ dice = nested.value
                            /\ \A k \in 1..n :
                                  results[k] = roll_dice(nested.value,
                                                         results[k].rolls)
        /\ written # None => IsWrapperShape(strip(expr))
        /\ ~IsWrapperShape(strip(expr)) =>
            LET single == parse_dice_expr(expr, rules)
            IN  /\ raised = single.raised
                /\ raised = "None" =>
                    /\ Len(results) = 1
                    /\ dice = single.value
                    /\ results[1] = roll_dice(single.value, results[1].rolls)
        /\ (expr = <<"+", "3", " ", "d", "6">> /\ max_rolls = 10
            /\ rules = GuildConfig) =>
                /\ raised = "None"
                /\ Len(results) = 3
                /\ dice = DiceRoll(1, 6, 0, None)
        /\ (expr = <<"1", "1", " ", "d", "6">> /\ max_rolls = 10) =>
                ErrorKind(raised) = "OutOfRange"

\* "+3 d6" with max_rolls 10: three outcomes of 1d6 that are not all equal.
C10_Witness ==
    /\ fn = "roll_multiple_dice"
    /\ expr = <<"+", "3", " ", "d", "6">>
    /\ max_rolls = 10
    /\ raised = "None"
    /\ Len(results) = 3
    /\ results[1].rolls = <<6>>
    /\ results[2].rolls = <<1>>
    /\ results[3].rolls = <<3>>

-----------------------------------------------------------------------------
(* Claims about the order and number of draws, checked under SpecSteps.    *)

\* In every outcome the i-th roll is the i-th value drawn for that roll, the
\* k-th outcome holding the draws (k-1)*c+1 .. k*c, and the draws made never
\* exceed repeat * count.
DrawsInOrder ==
    pc \in {"rolling", "done"} =>
        LET c == dice.count
        IN  /\ written # None => repeat = written[1].repeat
            /\ written = None => repeat = 1
            /\ repeat <= max_rolls
            /\ c <= rules.dnd_max_dice_count
            /\ Len(draws) = Len(results) * c + Len(current_rolls)
            /\ Len(draws) <= repeat * c
            /\ \A k \in 1..Len(results) :
                  results[k].rolls = SubSeq(draws, (k - 1) * c + 1, k * c)
            /\ pc = "done" =>
                  /\ Len(results) = repeat
                  /\ Len(draws) = repeat * c
                  /\ Len(draws) <= max_rolls * rules.dnd_max_dice_count

\* C17: roll order is preserved and the work is bounded: in every outcome
\* the i-th element of rolls is the i-th value drawn for that roll; a
\* successful multi-roll with repeat N and dice count c performs exactly N*c
\* draws (at most max_rolls * maxDiceCount), the k-th outcome holding the
\* draws (k-1)*c+1 .. k*c, no value shared between repeats; and the call
\* always terminates, returning or raising.
C17_OrderedBoundedDraws ==
    /\ []DrawsInOrder
    /\ <>(pc \in {"done", "raised"})

\* "2 2d3" returned after four draws, the outcomes holding two each.
C17_Witness ==
    /\ pc = "done"
    /\ repeat = 2
    /\ dice.count = 2
    /\ draws = <<1, 3, 2, 1>>
    /\ results[1].rolls = <<1, 3>>
    /\ results[2].rolls = <<2, 1>>

-----------------------------------------------------------------------------
(* Claims about the configuration, checked under SpecConfig.               *)

\* C14: every configuration that can reach a roll (the built-in default,
\* one loaded from config.json by load_config, one stored through
\* set_guild_config and returned by get_guild_config) has
\* cocHardDivisor > 0, cocExtremeDivisor > 0, maxDiceCount >= 1 and
\* maxDiceSides >= 1.
C14_DivisorsAndCapsPositive ==
    /\ GuildConfigInstance.coc_skill_divisor_hard > 0
    /\ GuildConfigInstance.coc_skill_divisor_extreme > 0
    /\ GuildConfigInstance.dnd_max_dice_count >= 1
    /\ GuildConfigInstance.dnd_max_dice_sides >= 1
    /\ constructed =>
        \A g \in Guilds :
            LET cfg == get_guild_config(g)
            IN  /\ cfg.coc_skill_divisor_hard > 0
                /\ cfg.coc_skill_divisor_extreme > 0
                /\ cfg.dnd_max_dice_count >= 1
                /\ cfg.dnd_max_dice_sides >= 1

\* C15: a stored configuration object is never mutated field by field:
\* every update path (log_stream, log_stream_mode, crit) replaces the
\* guild's configuration with a new object, so that a reference to a
\* GuildConfig obtained earlier from get_guild_config never observes a
\* changed field: no step changes a field of an object that exists, and a
\* step that changes what get_guild_config returns for a guild with a
\* stored configuration stores an object of another identity.
C15_ReplacedNotMutated ==
    [][/\ \A o \in ObjectIds :
            objects[o] # None => objects'[o] \in {objects[o], None}
       /\ \A g \in Guilds :
            (guild_configs[g] # 0
             /\ get_guild_config(g)' # get_guild_config(g))
                => guild_configs'[g] # guild_configs[g]]_vars

-----------------------------------------------------------------------------
(* Claims about the skill database, checked under SpecSkills.              *)

\* C19: after the command author confirms the /skill delete dialog, the
\* skill shown in that dialog (the row find_skill_in_guild matched in this
\* server, whoever owns it) no longer exists in the table, and no other row
\* has been removed.
C19_ConfirmDeletesShown ==
    [][(view # None /\ view' = None /\ fn' = "confirm_delete") =>
            /\ \A r \in skills' : UniqueKey(r) # UniqueKey(shown)
            /\ \A r \in skills :
                  UniqueKey(r) # UniqueKey(shown) => r \in skills']_vars

OneRowPerKey ==
    \A r \in skills, q \in skills : UniqueKey(r) = UniqueKey(q) => r = q

\* C20: add_skill adds or updates: after any sequence of add_skill and
\* delete_skill calls the table holds at most one row per (guild, user,
\* lower-cased name); an add leaves exactly the row of its arguments under
\* its key, so that adding a name that differs from an existing one of the
\* same guild and user only in letter case replaces that row's name, type,
\* level and effect with the new values; rows of other keys are unchanged.
C20_AddOrUpdate ==
    /\ []OneRowPerKey
    /\ [][fn' = "skill_add" =>
            LET q == request'
                new == Skill(q.guild_id, q.user_id, q.name, lower(q.name),
                             q.skill_type, q.level, q.effect)
            IN  /\ new \in skills'
                /\ \A r \in skills' :
                      UniqueKey(r) = UniqueKey(new) => r = new
                /\ \A r \in skills \cup skills' :
                      UniqueKey(r) # UniqueKey(new)
                          => (r \in skills <=> r \in skills')]_vars

\* "A" added over the same user's "a", next to a row of another key: the
\* row is now "A" with the values of the call.
C20_Witness ==
    /\ fn = "skill_add"
    /\ request.name = <<"A">>
    /\ request.previous = {<<"a">>}
    /\ Cardinality(skills) > 1
    /\ \E r \in skills :
        /\ r.name = <<"A">>
        /\ r.normalized_name = <<"a">>
        /\ r.user_id = request.user_id
        /\ r.guild_id = request.guild_id
        /\ r.skill_type = request.skill_type

-----------------------------------------------------------------------------
(* Claims about the /roll command, checked under SpecRollCommand.          *)

\* The default number of repeats /roll accepts.
DefaultMaxRolls == 50

\* C24: for /roll the repeat count N of a multi-roll is accepted iff
\* 1 <= N <= 50 under the default configuration, and the bound on the
\* repeats is a value of its own, not dnd_max_dice_count: in a guild with
\* another dnd_max_dice_count the same repeat counts are accepted.
C24_RepeatBoundOfItsOwn ==
    (fn = "roll_command" /\ written # None) =>
        LET n == written[1].repeat
        IN  parse_dice_expr(written[1].nested, rules).raised = "None" =>
                (raised = "None" <=> (1 <= n /\ n <= DefaultMaxRolls))

-----------------------------------------------------------------------------
(* Claims about the /admin command, its dialogs and the developer list,    *)
(* checked under SpecAdmin.                                                *)

\* C21: every /admin action requires a developer: when the invoking user is
\* not in the developer list, admin_command creates no confirmation dialog,
\* executes no restart or shutdown and leaves the developer list (and the
\* saved file) unchanged, whatever the action string.
C21_AdminRequiresDeveloper ==
    [][(fn' = "admin_command"
        /\ \A i \in 1..Len(developers) :
              developers[i] # admin_request'.author_id) =>
            /\ outcome' = "denied"
            /\ admin_view' = admin_view
            /\ tasks' = tasks
            /\ running' = running
            /\ developers' = developers
            /\ global_file' = global_file]_vars

\* User 2, no developer while user 1 is one, asks for a restart and is
\* denied.
C21_Witness ==
    /\ fn = "admin_command"
    /\ developers = <<1>>
    /\ admin_request.author_id = 2
    /\ admin_request.action = "RESTART"
    /\ outcome = "denied"
    /\ admin_view = None
    /\ running

\* C22: a ConfirmView behaves as Pending -> Confirmed | Cancelled | TimedOut
\* restricted to the invoking user: a confirm or cancel by another user
\* leaves the dialog as it is and executes nothing; the guarded action is
\* executed only by the confirm callback of the invoking user; and it is
\* never executed by a confirm that comes after a cancel of the invoking
\* user has been taken.
C22_DialogStateMachine ==
    /\ [][(fn' \in {"confirm", "cancel"} /\ admin_view # None
           /\ admin_request'.author_id # admin_view.author_id) =>
                /\ outcome' = "rejected"
                /\ admin_view' = admin_view
                /\ tasks' = tasks
                /\ developers' = developers
                /\ running' = running]_vars
    /\ [][outcome' \in ExecutedOutcomes =>
                /\ fn' = "confirm_resumed"
                /\ "confirm" \in tasks]_vars
    /\ [][(outcome' \in ExecutedOutcomes /\ fn' = "confirm_resumed"
           /\ "confirm" \in tasks /\ "confirm" \notin tasks') =>
                ~admin_view.after_cancel]_vars

\* The developer list holds no user twice.
NoDuplicates(devs) ==
    \A i \in 1..Len(devs), j \in 1..Len(devs) : devs[i] = devs[j] => i = j

\* C29: from a developer list without duplicates, add_developer(u) returns
\* true and appends u iff u was absent, else returns false and leaves the
\* list and the saved file unchanged; remove_developer(u) returns true and
\* removes u iff u was present, else returns false and changes nothing; the
\* list stays without duplicates; is_developer(u) is true iff u is in the
\* list.
C29_DeveloperList ==
    /\ [][(fn' = "confirm_resumed" /\ "confirm" \in tasks
           /\ "confirm" \notin tasks'
           /\ admin_view.action \in {"dev_add", "dev_remove"}
           /\ NoDuplicates(developers)) =>
            LET u == admin_view.target_user
                present == \E i \in 1..Len(developers) : developers[i] = u
            IN  /\ NoDuplicates(developers')
                /\ admin_view.action = "dev_add" =>
                    /\ outcome' = "added" <=> ~present
                    /\ outcome' = "already" <=> present
                    /\ ~present =>
                        /\ developers' = Append(developers, u)
                        /\ global_file' = SaveGlobal(developers')
                    /\ present =>
                        /\ developers' = developers
                        /\ global_file' = global_file
                /\ admin_view.action = "dev_remove" =>
                    /\ outcome' = "removed" <=> present
                    /\ outcome' = "not_present" <=> ~present
                    /\ present =>
                        /\ developers' = SelectSeq(developers,
                                                   LAMBDA x : x # u)
                        /\ global_file' = SaveGlobal(developers')
                    /\ ~present =>
                        /\ developers' = developers
                        /\ global_file' = global_file]_vars
    /\ [][fn' = "admin_command" =>
            (outcome' # "denied" <=>
                \E i \in 1..Len(developers) :
                    developers[i] = admin_request'.author_id)]_vars

\* Developer 1 has removed themself from the list <<1, 2>>.
C29_Witness ==
    /\ fn = "confirm_resumed"
    /\ outcome = "removed"
    /\ admin_view.action = "dev_remove"
    /\ admin_view.target_user = 1
    /\ admin_view.author_id = 1
    /\ developers = <<2>>
    /\ global_file = SaveGlobal(<<2>>)

\* C30: started from the default global configuration (no developers), no
\* sequence of /admin commands and button presses by any users makes the
\* developer list non-empty, creates a dialog or executes a restart, a
\* shutdown or a change of the list.
C30_NoDeveloperFromNothing ==
    boot = "default" =>
        /\ developers = <<>>
        /\ admin_view = None
        /\ tasks = {}
        /\ running
        /\ outcome \notin ExecutedOutcomes

\* Without a config.json, user 1 asks to be added as a developer and is
\* denied.
C30_Witness ==
    /\ boot = "default"
    /\ global_file = SaveGlobal(<<>>)
    /\ fn = "admin_command"
    /\ admin_request = [author_id |-> 1, action |-> "dev_add", user |-> 1]
    /\ outcome = "denied"
    /\ developers = <<>>

-----------------------------------------------------------------------------
(* Claims about the name lookup, checked under SpecLookup.                 *)

\* text contains part as a run of consecutive characters.
ContainsText(text, part) ==
    \E i \in 0..(Len(text) - Len(part)) :
        SubSeq(text, i + 1, i + Len(part)) = part

\* C23: find_skill_for_user (and find_skill_in_guild over the whole guild)
\* returns nothing when no record in scope has a lower-cased name containing
\* the lower-cased query; otherwise it returns a record that is minimal
\* under: equal to the query first, then smallest difference between the
\* lengths of name and query, then lexical order of the lower-cased name.
\* It never returns a record out of scope (another guild, or another user
\* for the per-user lookup).
C23_FuzzyLookup ==
    fn \in {"skill_show", "find_skill_in_guild"} =>
        LET query == lower(request.name)
            scope == {r \in skills :
                        /\ r.guild_id = request.guild_id
                        /\ fn = "skill_show" => r.user_id = request.user_id}
            containing ==
                {r \in scope : ContainsText(r.normalized_name, query)}
            exact(r) == IF r.normalized_name = query THEN 0 ELSE 1
            distance(r) == Abs(Len(r.normalized_name) - Len(query))
            better(o, r) ==
                \/ exact(o) < exact(r)
                \/ exact(o) = exact(r) /\ distance(o) < distance(r)
                \/ /\ exact(o) = exact(r)
                   /\ distance(o) = distance(r)
                   /\ TextLess(o.normalized_name, r.normalized_name)
        IN  /\ containing = {} => found.row = None
            /\ containing # {} =>
                /\ found.row \in containing
                /\ \A o \in containing : ~better(o, found.row)
            /\ found.row # None => found.row \in scope

=============================================================================
